---- MODULE Spec2Model ----
(***************************************************************************)
(* A model of the UAX #29 break engines of src/unicode.c: the TextIterator *)
(* macros, the three next-break functions (grapheme, word, sentence) and   *)
(* the grapheme_length loop that iterates a next-break function over a     *)
(* text; of casefold, grapheme_substr, has_category and category_name of   *)
(* the same file; and of the tokenizer callback of src/fts.c.              *)
(*                                                                         *)
(* A text is a sequence of characters.  A character is named by the class  *)
(* the classifier of the engine in use puts it in; the classifier maps the *)
(* character to its category mask, a set of flag names (a C bit mask:      *)
(* "mask & flags" is a non-empty intersection).                            *)
(***************************************************************************)
EXTENDS Integers, Sequences, FiniteSets, TLC

VARIABLES which, text, offset, count, cuts, pc, it, args, frame, result, heap

vars == <<which, text, offset, count, cuts, pc, it, args, frame, result, heap>>

(***************************************************************************)
(* Bounds of the model.                                                    *)
(***************************************************************************)
\* longest text over the full alphabet of an engine
MaxLen == 2
\* longest text over the focus alphabet of an engine
MaxFocusLen == 3
\* longest text over a run alphabet of an engine
MaxRunLen == 5

(***************************************************************************)
(* Category masks.                                                         *)
(***************************************************************************)
\* mask & flags
Has(mask, flags) == (mask \cap flags) # {}

\* The characters of the model, one per class of each classifier.  "Other"
\* carries a flag no rule tests; "Unassigned" has the mask zero.
GCChars ==
  {"CR", "LF", "Control", "Extend", "ZWJ", "Regional_Indicator", "Prepend",
   "SpacingMark", "L", "V", "T", "LV", "LVT", "Extended_Pictographic",
   "InCB_Linker", "InCB_Consonant", "InCB_Extend", "Other", "Unassigned"}

WCChars ==
  {"CR", "LF", "Newline", "Extend", "ZWJ", "Regional_Indicator", "Format",
   "Katakana", "Hebrew_Letter", "ALetter", "Single_Quote", "Double_Quote",
   "MidNumLet", "MidLetter", "MidNum", "Numeric", "ExtendNumLet", "WSegSpace",
   "Extended_Pictographic", "Other", "Unassigned"}

SCChars ==
  {"CR", "LF", "Extend", "Sep", "Format", "Sp", "Lower", "Upper", "OLetter",
   "Numeric", "ATerm", "SContinue", "STerm", "Close", "Other", "Unassigned"}

\* InCB_Linker and InCB_Extend characters are also Extend.
grapheme_category(c) ==
  CASE c = "InCB_Extend" -> {"Extend", "InCB_Extend"}
    [] c = "InCB_Linker" -> {"Extend", "InCB_Linker"}
    [] c = "Unassigned" -> {}
    [] OTHER -> {c}

word_category(c) == IF c = "Unassigned" THEN {} ELSE {c}

sentence_category(c) == IF c = "Unassigned" THEN {} ELSE {c}

\* the classifier the engine w was compiled with (#define cat_func ...)
cat_func(w, c) ==
  CASE w = "grapheme" -> grapheme_category(c)
    [] w = "word" -> word_category(c)
    [] w = "sentence" -> sentence_category(c)

\* every flag of a sentence mask: the 0xFFFFFFFFu of SB8
SC_ALL == (SCChars \ {"Unassigned"})

AHLetter == {"ALetter", "Hebrew_Letter"}

MidNumLetQ == {"MidNumLet", "Single_Quote"}

ParaSep == {"Sep", "CR", "LF"}

SATerm == {"STerm", "ATerm"}

(***************************************************************************)
(* TextIterator.  text_end is Len(text); the C index pos reads text[pos+1].*)
(* assert_advance and assert_transaction record that the assert() of       *)
(* it_advance, or one of it_begin, it_commit and it_rollback, was reached   *)
(* with its condition false.  advances, begins and ends are the history of *)
(* the call: the numbers of it_advance, of it_begin, and of it_commit and  *)
(* it_rollback executed since TEXT_INIT.                                   *)
(***************************************************************************)
TEXT_INIT(w, txt, off) ==
  [pos |-> off,
   curchar |-> {},
   lookahead |-> IF off = Len(txt) THEN {} ELSE cat_func(w, txt[off + 1]),
   in_transaction |-> FALSE,
   saved |-> [pos |-> 0, curchar |-> {}, lookahead |-> {}],
   assert_advance |-> FALSE,
   assert_transaction |-> FALSE,
   advances |-> 0,
   begins |-> 0,
   ends |-> 0]

\* Past the end of the text the model reads the mask zero.
it_advance(w, txt, i) ==
  [i EXCEPT
     !.assert_advance = @ \/ ~(i.pos < Len(txt)),
     !.advances = @ + 1,
     !.curchar = i.lookahead,
     !.pos = i.pos + 1,
     !.lookahead = IF i.pos + 1 >= Len(txt) THEN {}
                   ELSE cat_func(w, txt[i.pos + 2])]

\* mutant: the first advance counted as an accepted character
it_has_accepted_OffByOne(i, off) == i.pos > off

it_has_accepted(i, off) == i.pos > off + 1

RECURSIVE absorb_extend(_, _, _, _)
absorb_extend(w, txt, i, extend) ==
  IF Has(i.lookahead, extend)
  THEN absorb_extend(w, txt, it_advance(w, txt, i), extend)
  ELSE i

RECURSIVE absorb_match(_, _, _, _, _)
absorb_match(w, txt, i, match, extend) ==
  IF Has(i.lookahead, match)
  THEN absorb_match(w, txt, absorb_extend(w, txt, it_advance(w, txt, i), extend),
                    match, extend)
  ELSE i

it_absorb(w, txt, i, match, extend) ==
  IF Has(i.lookahead, match)
  THEN [absorb_match(w, txt, i, match, extend) EXCEPT !.curchar = i.curchar]
  ELSE i

it_begin(i) ==
  [i EXCEPT
     !.assert_transaction = @ \/ i.in_transaction,
     !.begins = @ + 1,
     !.saved = [pos |-> i.pos, curchar |-> i.curchar, lookahead |-> i.lookahead],
     !.in_transaction = TRUE]

\* mutant: the commit leaves the transaction open
it_commit_StaysOpen(i) ==
  [i EXCEPT
     !.assert_transaction = @ \/ ~i.in_transaction,
     !.ends = @ + 1]

it_commit(i) ==
  [i EXCEPT
     !.assert_transaction = @ \/ ~i.in_transaction,
     !.ends = @ + 1,
     !.in_transaction = FALSE]

\* mutant: the rollback does not restore curchar
it_rollback_KeepsCurchar(i) ==
  [i EXCEPT
     !.assert_transaction = @ \/ ~i.in_transaction,
     !.ends = @ + 1,
     !.pos = i.saved.pos,
     !.lookahead = i.saved.lookahead,
     !.in_transaction = FALSE]

it_rollback(i) ==
  [i EXCEPT
     !.assert_transaction = @ \/ ~i.in_transaction,
     !.ends = @ + 1,
     !.pos = i.saved.pos,
     !.curchar = i.saved.curchar,
     !.lookahead = i.saved.lookahead,
     !.in_transaction = FALSE]

(***************************************************************************)
(* The outcome of one rule of a loop body: "next" falls through to the     *)
(* following rule, "continue" and "break" are the C statements, "loop_top" *)
(* is the goto of WB4.                                                     *)
(***************************************************************************)
Fall(i) == [it |-> i, ctl |-> "next"]

Continue(i) == [it |-> i, ctl |-> "continue"]

Break(i) == [it |-> i, ctl |-> "break"]

Goto(i) == [it |-> i, ctl |-> "loop_top"]

(***************************************************************************)
(* grapheme_next_break                                                     *)
(***************************************************************************)
\* the while loop of GB9c: [it, seen_linker]
RECURSIVE gb9c_scan(_, _, _)
gb9c_scan(txt, i, seen) ==
  IF Has(i.lookahead, {"InCB_Extend", "InCB_Linker"})
  THEN gb9c_scan(txt, it_advance("grapheme", txt, i),
                 seen \/ Has(i.lookahead, {"InCB_Linker"}))
  ELSE [it |-> i, seen_linker |-> seen]

\* mutant: the LF taken without looking at the lookahead
GB3_NoLookahead(i) ==
  IF Has(i.curchar, {"CR"})
  THEN Break([i EXCEPT !.pos = @ + 1])
  ELSE Fall(i)

GB3(i) ==
  IF Has(i.curchar, {"CR"}) /\ Has(i.lookahead, {"LF"})
  THEN Break([i EXCEPT !.pos = @ + 1])
  ELSE Fall(i)

\* GB4, and GB5: break before if any chars are accepted
GB4(i, off) ==
  IF Has(i.curchar, {"Control", "CR", "LF"})
  THEN Break(IF it_has_accepted(i, off) THEN [i EXCEPT !.pos = @ - 1] ELSE i)
  ELSE Fall(i)

\* mutant: GB9c without the test that a linker was seen
GB9c_NoLinkerTest(txt, i) ==
  IF Has(i.curchar, {"InCB_Consonant"}) /\ Has(i.lookahead, {"InCB_Extend", "InCB_Linker"})
  THEN LET b == it_begin(i)
           s == gb9c_scan(txt, it_advance("grapheme", txt, b),
                          Has(b.lookahead, {"InCB_Linker"}))
       IN IF Has(s.it.lookahead, {"InCB_Consonant"})
          THEN Continue(it_commit(s.it))
          ELSE Fall(it_rollback(s.it))
  ELSE Fall(i)

GB9c(txt, i) ==
  IF Has(i.curchar, {"InCB_Consonant"}) /\ Has(i.lookahead, {"InCB_Extend", "InCB_Linker"})
  THEN LET b == it_begin(i)
           s == gb9c_scan(txt, it_advance("grapheme", txt, b),
                          Has(b.lookahead, {"InCB_Linker"}))
       IN IF s.seen_linker /\ Has(s.it.lookahead, {"InCB_Consonant"})
          THEN Continue(it_commit(s.it))
          ELSE Fall(it_rollback(s.it))
  ELSE Fall(i)

\* mutant: GB11 without the Extend* before the ZWJ
GB11_NoExtend(txt, i) ==
  IF Has(i.curchar, {"Extended_Pictographic"}) /\ Has(i.lookahead, {"Extend", "ZWJ"})
  THEN LET b == it_begin(i)
           z == it_advance("grapheme", txt, b)
       IN IF Has(b.lookahead, {"ZWJ"}) /\ Has(z.lookahead, {"Extended_Pictographic"})
          THEN Continue(it_commit(z))
          ELSE Fall(it_rollback(IF Has(b.lookahead, {"ZWJ"}) THEN z ELSE b))
  ELSE Fall(i)

GB11(txt, i) ==
  IF Has(i.curchar, {"Extended_Pictographic"}) /\ Has(i.lookahead, {"Extend", "ZWJ"})
  THEN LET b == it_begin(i)
           e == absorb_extend("grapheme", txt, b, {"Extend"})
           z == it_advance("grapheme", txt, e)
       IN IF Has(e.lookahead, {"ZWJ"}) /\ Has(z.lookahead, {"Extended_Pictographic"})
          THEN Continue(it_commit(z))
          ELSE Fall(it_rollback(IF Has(e.lookahead, {"ZWJ"}) THEN z ELSE e))
  ELSE Fall(i)

\* mutant: GB9 not re-applied after the second Regional_Indicator
GB12_NoReapply(txt, i) ==
  IF Has(i.curchar, {"Regional_Indicator"}) /\ Has(i.lookahead, {"Regional_Indicator"})
  THEN Break(it_advance("grapheme", txt, i))
  ELSE Fall(i)

\* mutant: Regional_Indicator x Regional_Indicator without the pairing
GB12_NoPairing(txt, i) ==
  IF Has(i.curchar, {"Regional_Indicator"}) /\ Has(i.lookahead, {"Regional_Indicator"})
  THEN Continue(i)
  ELSE Fall(i)

GB12(txt, i) ==
  IF Has(i.curchar, {"Regional_Indicator"}) /\ Has(i.lookahead, {"Regional_Indicator"})
  THEN LET a == it_advance("grapheme", txt, i)
       IN IF Has(a.lookahead, {"Extend", "ZWJ", "InCB_Extend"})
          THEN Continue(a)
          ELSE Break(a)
  ELSE Fall(i)

\* one rule of the loop body, applied after the it_advance at its top
GBRule(rule, txt, off, i) ==
  CASE rule = "GB3" -> GB3(i)
    [] rule = "GB4" -> GB4(i, off)
    [] rule = "GB6" ->
         IF Has(i.curchar, {"L"}) /\ Has(i.lookahead, {"L", "V", "LV", "LVT"})
         THEN Continue(i) ELSE Fall(i)
    [] rule = "GB7" ->
         IF Has(i.curchar, {"LV", "V"}) /\ Has(i.lookahead, {"V", "T"})
         THEN Continue(i) ELSE Fall(i)
    [] rule = "GB8" ->
         IF Has(i.curchar, {"LVT", "T"}) /\ Has(i.lookahead, {"T"})
         THEN Continue(i) ELSE Fall(i)
    [] rule = "GB9a" ->
         IF Has(i.lookahead, {"SpacingMark"}) THEN Continue(i) ELSE Fall(i)
    [] rule = "GB9b" ->
         IF Has(i.curchar, {"Prepend"}) THEN Continue(i) ELSE Fall(i)
    [] rule = "GB9c" -> GB9c(txt, i)
    [] rule = "GB11" -> GB11(txt, i)
    [] rule = "GB9" ->
         IF Has(i.lookahead, {"Extend", "ZWJ"}) THEN Continue(i) ELSE Fall(i)
    [] rule = "GB12" -> GB12(txt, i)
    [] rule = "GB999" -> Break(i)

\* the rules in the order of the loop body
GBRules ==
  <<"GB3", "GB4", "GB6", "GB7", "GB8", "GB9a", "GB9b", "GB9c", "GB11", "GB9",
    "GB12", "GB999">>

(***************************************************************************)
(* word_next_break                                                         *)
(***************************************************************************)
WB_Transparent == {"Extend", "ZWJ", "Format"}

\* the look-ahead form of WB3c: x ZWJ Extended_Pictographic
WB3c_lookahead(txt, i) ==
  IF Has(i.lookahead, {"ZWJ"})
  THEN LET b == it_begin(i)
           z == it_advance("word", txt, b)
       IN IF Has(z.lookahead, {"Extended_Pictographic"})
          THEN Continue(it_commit(it_advance("word", txt, z)))
          ELSE Fall(it_rollback(z))
  ELSE Fall(i)

\* the while loop of WB4: [it, goto_top]
RECURSIVE wb4_scan(_, _)
wb4_scan(txt, i) ==
  IF Has(i.lookahead, WB_Transparent)
  THEN LET a == it_advance("word", txt, i)
       IN IF Has(i.lookahead, {"ZWJ"}) /\ Has(a.lookahead, {"Extended_Pictographic"})
          THEN [it |-> a, goto_top |-> TRUE]
          ELSE wb4_scan(txt, a)
  ELSE [it |-> i, goto_top |-> FALSE]

WB4(txt, i) ==
  IF Has(i.lookahead, WB_Transparent)
  THEN LET s == wb4_scan(txt, i)
       IN IF s.goto_top
          THEN Goto(s.it)
          ELSE Fall([s.it EXCEPT !.curchar = i.curchar])
  ELSE Fall(i)

\* WB6/7, WB7b/c and WB11/12: x mid (transparent)* follow
WB_Mid(txt, i, first, mid, follow, absorb) ==
  IF Has(i.curchar, first) /\ Has(i.lookahead, mid)
  THEN LET b == it_begin(i)
           a == it_advance("word", txt, b)
           t == IF absorb THEN it_absorb("word", txt, a, WB_Transparent, {}) ELSE a
       IN IF Has(t.lookahead, follow)
          THEN Continue(it_commit(t))
          ELSE Fall(it_rollback(t))
  ELSE Fall(i)

WB15_16(txt, i) ==
  IF Has(i.curchar, {"Regional_Indicator"}) /\ Has(i.lookahead, {"Regional_Indicator"})
  THEN Break(it_absorb("word", txt, it_advance("word", txt, i), WB_Transparent, {}))
  ELSE Fall(i)

\* curchar x lookahead continues
WB_Pair(i, left, right) ==
  IF Has(i.curchar, left) /\ Has(i.lookahead, right) THEN Continue(i) ELSE Fall(i)

WBRule(rule, txt, off, i) ==
  CASE rule = "WB3" ->
         IF Has(i.curchar, {"CR"}) /\ Has(i.lookahead, {"LF"})
         THEN Break([i EXCEPT !.pos = @ + 1])
         ELSE Fall(i)
    [] rule = "WB3ab" ->
         IF Has(i.curchar, {"Newline", "CR", "LF"})
         THEN Break(IF it_has_accepted(i, off) THEN [i EXCEPT !.pos = @ - 1] ELSE i)
         ELSE Fall(i)
    [] rule = "WB3c" -> WB_Pair(i, {"ZWJ"}, {"Extended_Pictographic"})
    [] rule = "WB3c_lookahead" -> WB3c_lookahead(txt, i)
    [] rule = "WB3d" -> WB_Pair(i, {"WSegSpace"}, {"WSegSpace"})
    [] rule = "WB4" -> WB4(txt, i)
    [] rule = "WB5" -> WB_Pair(i, AHLetter, AHLetter)
    [] rule = "WB6_7" ->
         WB_Mid(txt, i, AHLetter, {"MidLetter"} \cup MidNumLetQ, AHLetter, TRUE)
    [] rule = "WB7a" -> WB_Pair(i, {"Hebrew_Letter"}, {"Single_Quote"})
    [] rule = "WB7bc" ->
         WB_Mid(txt, i, {"Hebrew_Letter"}, {"Double_Quote"}, {"Hebrew_Letter"}, FALSE)
    [] rule = "WB8" -> WB_Pair(i, {"Numeric"}, {"Numeric"})
    [] rule = "WB9" -> WB_Pair(i, AHLetter, {"Numeric"})
    [] rule = "WB10" -> WB_Pair(i, {"Numeric"}, AHLetter)
    [] rule = "WB11_12" ->
         WB_Mid(txt, i, {"Numeric"}, {"MidNum"} \cup MidNumLetQ, {"Numeric"}, TRUE)
    [] rule = "WB13" -> WB_Pair(i, {"Katakana"}, {"Katakana"})
    [] rule = "WB13a" ->
         WB_Pair(i, AHLetter \cup {"Numeric", "Katakana", "ExtendNumLet"}, {"ExtendNumLet"})
    [] rule = "WB13b" ->
         WB_Pair(i, {"ExtendNumLet"}, AHLetter \cup {"Numeric", "Katakana"})
    [] rule = "WB15_16" -> WB15_16(txt, i)
    [] rule = "WB999" -> Break(i)

\* mutant: WB5 left out
WBRules_NoWB5 ==
  <<"WB3", "WB3ab", "WB3c", "WB3c_lookahead", "WB3d", "WB4", "WB6_7",
    "WB7a", "WB7bc", "WB8", "WB9", "WB10", "WB11_12", "WB13", "WB13a", "WB13b",
    "WB15_16", "WB999">>

WBRules ==
  <<"WB3", "WB3ab", "WB3c", "WB3c_lookahead", "WB3d", "WB4", "WB5", "WB6_7",
    "WB7a", "WB7bc", "WB8", "WB9", "WB10", "WB11_12", "WB13", "WB13a", "WB13b",
    "WB15_16", "WB999">>

(***************************************************************************)
(* sentence_next_break                                                     *)
(***************************************************************************)
SB_Ignored == {"Format", "Extend"}

\* the mask 0xFFFFFFFFu ^ OLetter ^ Upper ^ Lower ^ ParaSep ^ SATerm of SB8
SB8_Skipped == SC_ALL \ ({"OLetter", "Upper", "Lower"} \cup ParaSep \cup SATerm)

\* SATerm Close* Sp*, each followed by Format and Extend characters
CloseSp(txt, i) ==
  it_absorb("sentence", txt,
            it_absorb("sentence", txt, i, {"Close"}, SB_Ignored),
            {"Sp"}, SB_Ignored)

\* mutant: SB7 looks past spaces after the ATerm
SB7_SkipSp(txt, i) ==
  IF Has(i.curchar, {"Upper", "Lower"}) /\ Has(i.lookahead, {"ATerm"})
  THEN LET b == it_begin(i)
           a == it_absorb("sentence", txt, it_advance("sentence", txt, b),
                          SB_Ignored \cup {"Sp"}, {})
       IN IF Has(a.lookahead, {"Upper"})
          THEN Continue(it_commit(a))
          ELSE Fall(it_rollback(a))
  ELSE Fall(i)

SB7(txt, i) ==
  IF Has(i.curchar, {"Upper", "Lower"}) /\ Has(i.lookahead, {"ATerm"})
  THEN LET b == it_begin(i)
           a == it_absorb("sentence", txt, it_advance("sentence", txt, b), SB_Ignored, {})
       IN IF Has(a.lookahead, {"Upper"})
          THEN Continue(it_commit(a))
          ELSE Fall(it_rollback(a))
  ELSE Fall(i)

SB8(txt, i) ==
  IF Has(i.curchar, {"ATerm"})
  THEN LET b == it_begin(i)
           s == it_absorb("sentence", txt, CloseSp(txt, b), SB8_Skipped, {})
           f == it_absorb("sentence", txt, s, SB_Ignored, {})
       IN IF Has(f.lookahead, {"Lower"})
          THEN Continue(it_commit(it_absorb("sentence", txt, f, SB_Ignored, {})))
          ELSE Fall(it_rollback(f))
  ELSE Fall(i)

SB8a(txt, i) ==
  IF Has(i.curchar, SATerm)
  THEN LET b == it_begin(i)
           c == CloseSp(txt, b)
       IN IF Has(c.lookahead, {"SContinue"} \cup SATerm)
          THEN Continue(it_commit(it_absorb("sentence", txt,
                                            it_advance("sentence", txt, c),
                                            SB_Ignored, {})))
          ELSE Fall(it_rollback(c))
  ELSE Fall(i)

\* mutant: SB9 / SB10 / SB11 without the test of curchar
SB9_11_AnyChar(txt, i) ==
  LET c == CloseSp(txt, i)
  IN IF Has(c.lookahead, ParaSep) THEN Continue(c) ELSE Break(c)

SB9_11(txt, i) ==
  IF Has(i.curchar, SATerm)
  THEN LET c == CloseSp(txt, i)
       IN IF Has(c.lookahead, ParaSep) THEN Continue(c) ELSE Break(c)
  ELSE Fall(i)

SBRule(rule, txt, off, i) ==
  CASE rule = "SB3" ->
         IF Has(i.curchar, {"CR"}) /\ Has(i.lookahead, {"LF"})
         THEN Break(it_advance("sentence", txt, i))
         ELSE Fall(i)
    [] rule = "SB4" -> IF Has(i.curchar, ParaSep) THEN Break(i) ELSE Fall(i)
    [] rule = "SB5" -> Fall(it_absorb("sentence", txt, i, SB_Ignored, {}))
    [] rule = "SB6" ->
         IF Has(i.curchar, {"ATerm"}) /\ Has(i.lookahead, {"Numeric"})
         THEN Continue(i) ELSE Fall(i)
    [] rule = "SB7" -> SB7(txt, i)
    [] rule = "SB8" -> SB8(txt, i)
    [] rule = "SB8a" -> SB8a(txt, i)
    [] rule = "SB9_11" -> SB9_11(txt, i)
    [] rule = "SB999" -> Continue(i)

SBRules ==
  <<"SB3", "SB4", "SB5", "SB6", "SB7", "SB8", "SB8a", "SB9_11", "SB999">>

(***************************************************************************)
(* The loop of an engine.                                                  *)
(***************************************************************************)
Rules(w) ==
  CASE w = "grapheme" -> GBRules
    [] w = "word" -> WBRules
    [] w = "sentence" -> SBRules

Rule(w, rule, txt, off, i) ==
  CASE w = "grapheme" -> GBRule(rule, txt, off, i)
    [] w = "word" -> WBRule(rule, txt, off, i)
    [] w = "sentence" -> SBRule(rule, txt, off, i)

\* the rules from the n-th on, until one does not fall through
RECURSIVE ApplyRules(_, _, _, _, _)
ApplyRules(w, n, txt, off, i) ==
  LET r == Rule(w, Rules(w)[n], txt, off, i)
  IN IF r.ctl = "next" /\ n < Len(Rules(w))
     THEN ApplyRules(w, n + 1, txt, off, r.it)
     ELSE r

\* one pass of the loop body: it_advance, then the rules
Body(w, txt, off, i) == ApplyRules(w, 1, txt, off, it_advance(w, txt, i))

\* mutant: the loop makes a pass at the end of the text
LoopTest_AtEnd(txt, i) == i.pos <= Len(txt)

\* mutant: the loop stops one character early
LoopTest_OffByOne(txt, i) == i.pos < Len(txt) - 1

\* while (it.pos < text_end)
LoopTest(txt, i) == i.pos < Len(txt)

\* the loop from the iterator state i with control at at ("while" is the
\* loop test, "loop_top" the label inside the body): the iterator at return
RECURSIVE Loop(_, _, _, _, _)
Loop(w, txt, off, i, at) ==
  IF at = "while" /\ ~LoopTest(txt, i)
  THEN i
  ELSE LET r == Body(w, txt, off, i)
       IN IF r.ctl = "break" THEN r.it
          ELSE Loop(w, txt, off, r.it, IF r.ctl = "loop_top" THEN "loop_top" ELSE "while")

next_break(w, txt, off) == Loop(w, txt, off, TEXT_INIT(w, txt, off), "while").pos

grapheme_next_break(txt, off) == next_break("grapheme", txt, off)

word_next_break(txt, off) == next_break("word", txt, off)

sentence_next_break(txt, off) == next_break("sentence", txt, off)

(***************************************************************************)
(* The texts of the model.                                                 *)
(***************************************************************************)
Engines == {"grapheme", "word", "sentence"}

Alphabet(w) ==
  CASE w = "grapheme" -> GCChars
    [] w = "word" -> WCChars
    [] w = "sentence" -> SCChars

\* a smaller alphabet per engine, of characters whose rules interact
FocusAlphabet(w) ==
  CASE w = "grapheme" ->
         {"CR", "LF", "Control", "Prepend", "SpacingMark", "Regional_Indicator",
          "Extend", "ZWJ", "Extended_Pictographic"}
    [] w = "word" ->
         {"CR", "LF", "ALetter", "Hebrew_Letter", "Double_Quote", "MidLetter",
          "Extend", "ZWJ", "Extended_Pictographic"}
    [] w = "sentence" ->
         {"CR", "LF", "Upper", "Lower", "ATerm", "STerm", "Close", "Sp", "Unassigned"}

\* alphabets of a few characters that form long runs
RunAlphabets(w) ==
  CASE w = "grapheme" ->
         {{"Extended_Pictographic", "Extend", "ZWJ"},
          {"Regional_Indicator", "Extend", "Other"},
          {"InCB_Consonant", "InCB_Linker", "InCB_Extend"}}
    [] w = "word" ->
         {{"ALetter", "WSegSpace"},
          {"ALetter", "ZWJ", "Extended_Pictographic"},
          {"Regional_Indicator", "Format", "Numeric"}}
    [] w = "sentence" ->
         {{"Upper", "Lower", "ATerm", "Sp"}}

\* the texts over the alphabet S of at most n characters
TextsOver(S, n) == UNION {[1..k -> S] : k \in 0..n}

\* "hello world" as the word classifier sees it
HelloWorld ==
  <<"ALetter", "ALetter", "ALetter", "ALetter", "ALetter", "WSegSpace",
    "ALetter", "ALetter", "ALetter", "ALetter", "ALetter">>

\* "Mr. Smith went home. He slept." as the sentence classifier sees it
MrSmith ==
  <<"Upper", "Lower", "ATerm", "Sp",
    "Upper", "Lower", "Lower", "Lower", "Lower", "Sp",
    "Lower", "Lower", "Lower", "Lower", "Sp",
    "Lower", "Lower", "Lower", "Lower", "ATerm", "Sp",
    "Upper", "Lower", "Sp",
    "Lower", "Lower", "Lower", "Lower", "Lower", "ATerm">>

\* a letter, a pictograph joined to it by ZWJ, and a line end
JoinedPictographLine ==
  <<"ALetter", "ZWJ", "Extended_Pictographic", "CR", "LF">>

\* Hebrew_Letter Double_Quote t Hebrew_Letter, t one transparent character
HebrewQuote(t) == <<"Hebrew_Letter", "Double_Quote", t, "Hebrew_Letter">>

\* two sentence terminators in a row, a space and the next sentence
TwoTerminators == <<"Lower", "STerm", "STerm", "Sp", "Upper">>

Literals(w) ==
  CASE w = "grapheme" -> {}
    [] w = "word" ->
         {HelloWorld, JoinedPictographLine}
           \cup {HebrewQuote(t) : t \in {"Extend", "Format", "ZWJ"}}
    [] w = "sentence" -> {MrSmith, TwoTerminators}

Texts(w) ==
  TextsOver(Alphabet(w), MaxLen) \cup TextsOver(FocusAlphabet(w), MaxFocusLen)
    \cup UNION {TextsOver(S, MaxRunLen) : S \in RunAlphabets(w)}
    \cup Literals(w)

(***************************************************************************)
(* The state machine: a caller of the next-break function of engine which. *)
(* It makes one call at any offset of the text, and from offset 0 it goes  *)
(* on like the loop of grapheme_length: it calls again with the value      *)
(* returned while that is before the end of the text.  offset is the       *)
(* argument of the current call, cuts the start offset followed by the     *)
(* returned values, count their number, it the iterator of the call in     *)
(* progress, pc the place of control in it.                                *)
(***************************************************************************)
NoIterator == TEXT_INIT("grapheme", <<>>, 0)

\* args, frame, result and heap belong to the calls of the other functions
\* of the module (casefold, grapheme_substr, has_category, category_name,
\* the tokenizer callback): the further arguments of the call, its local
\* variables, the object it returned and the objects it created.  The
\* next-break functions have none of them.
NoCall ==
  /\ args = <<>>
  /\ frame = <<>>
  /\ result = <<>>
  /\ heap = <<>>

Init ==
  /\ which \in Engines
  /\ text \in Texts(which)
  /\ offset \in 0..Len(text)
  /\ count = 0
  /\ cuts = <<offset>>
  /\ pc = "idle"
  /\ it = NoIterator
  /\ NoCall

\* while (offset < text_length)
LengthTest == offset < Len(text)

\* The first call is made at any offset, the following ones by the loop
\* that started at 0.  The number of calls is capped one above the length
\* of the text.
CallGuard ==
  /\ pc = "idle"
  /\ count = 0 \/ (cuts[1] = 0 /\ LengthTest)
  /\ count <= Len(text)

\* the call of the function: TEXT_INIT
Call ==
  /\ CallGuard
  /\ it' = TEXT_INIT(which, text, offset)
  /\ pc' = "while"
  /\ UNCHANGED <<which, text, offset, count, cuts, args, frame, result, heap>>

\* where control goes after a pass of the loop body
After(r) ==
  CASE r.ctl = "break" -> "return"
    [] r.ctl = "loop_top" -> "loop_top"
    [] OTHER -> "while"

\* the loop test holds: one pass of the body of engine w
Pass(w) ==
  /\ pc = "while"
  /\ which = w
  /\ LoopTest(text, it)
  /\ LET r == Body(w, text, offset, it)
     IN /\ it' = r.it
        /\ pc' = After(r)
  /\ UNCHANGED <<which, text, offset, count, cuts, args, frame, result, heap>>

GraphemePass == Pass("grapheme")

WordPass == Pass("word")

SentencePass == Pass("sentence")

\* goto loop_top of WB4: a pass of the body without the loop test
WordLoopTop ==
  /\ pc = "loop_top"
  /\ LET r == Body(which, text, offset, it)
     IN /\ it' = r.it
        /\ pc' = After(r)
  /\ UNCHANGED <<which, text, offset, count, cuts, args, frame, result, heap>>

\* the loop test fails
LoopExit ==
  /\ pc = "while"
  /\ ~LoopTest(text, it)
  /\ pc' = "return"
  /\ UNCHANGED <<which, text, offset, count, cuts, it, args, frame, result, heap>>

\* return it.pos; the caller takes it as its next offset
Return ==
  /\ pc = "return"
  /\ offset' = it.pos
  /\ count' = count + 1
  /\ cuts' = Append(cuts, it.pos)
  /\ pc' = "idle"
  /\ UNCHANGED <<which, text, it, args, frame, result, heap>>

Next ==
  \/ Call
  \/ GraphemePass
  \/ WordPass
  \/ SentencePass
  \/ WordLoopTop
  \/ LoopExit
  \/ Return

Spec == Init /\ [][Next]_vars

(***************************************************************************)
(* Properties.  After a Return the last call had the argument Arg and      *)
(* returned Ret; the character at the C index k is text[k + 1].            *)
(***************************************************************************)
Returned == pc = "idle" /\ count > 0

Arg == cuts[count]

Ret == cuts[count + 1]

\* the grapheme mask of the character at C index k
GC(k) == grapheme_category(text[k + 1])

\* C1: a call of any of the three functions at an offset before the end of
\* the text returns a value above the offset and at most the length; a call
\* at the end returns the length.
C1_NextInRange ==
  Returned =>
    IF Arg < Len(text)
    THEN Arg < Ret /\ Ret <= Len(text)
    ELSE Ret = Len(text)

\* a sentence call at an offset inside the text that returned before the end
C1_Witness ==
  /\ Returned
  /\ which = "sentence"
  /\ 0 < Arg
  /\ Ret < Len(text)

\* a first call at the end of a text that is not empty
C1_WitnessAtEnd ==
  /\ Returned
  /\ Arg = Len(text)
  /\ Len(text) > 0

\* the loop from 0 has ended: the last value returned is not before the end
IterationDone == Returned /\ cuts[1] = 0 /\ ~LengthTest

\* C2: iterating a next-break function from 0, every value returned is above
\* the offset it was called with and at most the length, each call starts
\* where the last range ended, at most length-of-text calls are made, and
\* the iteration makes its next call until the end of the text is returned.
C2_Partition ==
  (cuts[1] = 0 /\ Len(text) > 0) =>
    /\ \A k \in 1..count : cuts[k] < cuts[k + 1] /\ cuts[k + 1] <= Len(text)
    /\ pc = "idle" => offset = cuts[count + 1]
    /\ count <= Len(text)
    /\ IterationDone => cuts[count + 1] = Len(text)
    /\ pc = "idle" => (IterationDone \/ CallGuard)

\* a word iteration from 0 that ended after three or more calls, fewer than
\* the text has characters
C2_Witness ==
  /\ IterationDone
  /\ which = "word"
  /\ count >= 3
  /\ count < Len(text)

\* the cluster [Arg, Ret) holds a Control, CR or LF character
HasControl == \E k \in Arg..(Ret - 1) : Has(GC(k), {"Control", "CR", "LF"})

\* C3: a cluster returned by grapheme_next_break holds a Control, CR or LF
\* character only if it is that one character or the pair CR LF.
C3_ControlAlone ==
  (Returned /\ which = "grapheme" /\ HasControl) =>
    \/ Ret = Arg + 1
    \/ /\ Ret = Arg + 2
       /\ Has(GC(Arg), {"CR"})
       /\ Has(GC(Arg + 1), {"LF"})

\* C4: grapheme_next_break returns no boundary before an Extend or ZWJ
\* character, unless the character before the boundary is Control, CR or LF.
C4_NoBreakBeforeExtend ==
  (Returned /\ which = "grapheme" /\ Ret < Len(text)
     /\ Has(GC(Ret), {"Extend", "ZWJ"})) =>
    Has(GC(Ret - 1), {"Control", "CR", "LF"})

\* a boundary before the end was returned after a GB9c or GB11 lookahead
\* that failed: the cluster starts InCB_Consonant or Extended_Pictographic,
\* goes on with Extend or ZWJ characters and holds nothing else
C4_Witness ==
  /\ Returned
  /\ which = "grapheme"
  /\ Ret < Len(text)
  /\ Ret > Arg + 1
  /\ Has(GC(Arg), {"InCB_Consonant", "Extended_Pictographic"})
  /\ \A k \in (Arg + 1)..(Ret - 1) : Has(GC(k), {"Extend", "ZWJ"})

\* C5: grapheme_next_break returns no boundary before a SpacingMark
\* character, unless the character before the boundary is Control, CR or LF.
C5_NoBreakBeforeSpacingMark ==
  (Returned /\ which = "grapheme" /\ Ret < Len(text)
     /\ Has(GC(Ret), {"SpacingMark"})) =>
    Has(GC(Ret - 1), {"Control", "CR", "LF"})

\* the text has the form EP (Extend* ZWJ EP)^n, n >= 0
IsEmojiSequence(t) ==
  /\ Len(t) >= 1
  /\ Has(grapheme_category(t[1]), {"Extended_Pictographic"})
  /\ Has(grapheme_category(t[Len(t)]), {"Extended_Pictographic"})
  /\ \A k \in 1..(Len(t) - 1) :
       LET c == grapheme_category(t[k])
           d == grapheme_category(t[k + 1])
       IN \/ Has(c, {"Extended_Pictographic"}) /\ Has(d, {"Extend", "ZWJ"})
          \/ Has(c, {"Extend"}) /\ Has(d, {"Extend", "ZWJ"})
          \/ Has(c, {"ZWJ"}) /\ Has(d, {"Extended_Pictographic"})

\* C6: on a text EP (Extend* ZWJ EP)^n one call of grapheme_next_break at 0
\* returns the length of the text.
C6_EmojiSequenceIsOneCluster ==
  (Returned /\ which = "grapheme" /\ count = 1 /\ Arg = 0 /\ IsEmojiSequence(text)) =>
    Ret = Len(text)

\* the emoji family EP ZWJ EP ZWJ EP was returned as one cluster
C6_Witness ==
  /\ Returned
  /\ which = "grapheme"
  /\ text = <<"Extended_Pictographic", "ZWJ", "Extended_Pictographic", "ZWJ",
              "Extended_Pictographic">>
  /\ cuts = <<0, 5>>

\* a sequence with Extend characters before the ZWJ was returned as one cluster
C6_WitnessExtend ==
  /\ Returned
  /\ which = "grapheme"
  /\ text = <<"Extended_Pictographic", "Extend", "Extend", "ZWJ",
              "Extended_Pictographic">>
  /\ cuts = <<0, 5>>

IsRI(t, k) == Has(grapheme_category(t[k + 1]), {"Regional_Indicator"})

\* the offset p lies strictly inside a run of Regional_Indicator characters
InsideRIRun(t, p) == 0 < p /\ p < Len(t) /\ IsRI(t, p - 1) /\ IsRI(t, p)

\* the start of the maximal run of Regional_Indicator characters around p
RIRunStart(t, p) ==
  CHOOSE b \in 0..(p - 1) :
    /\ \A k \in b..(p - 1) : IsRI(t, k)
    /\ b = 0 \/ ~IsRI(t, b - 1)

\* C7: iterating grapheme_next_break from 0, an offset strictly inside a
\* maximal run of Regional_Indicator characters is a boundary exactly if
\* its distance from the start of the run is even.
C7_RIParity ==
  (pc = "idle" /\ which = "grapheme" /\ cuts[1] = 0) =>
    \A p \in 1..offset :
      InsideRIRun(text, p) =>
        ((\E k \in 1..(count + 1) : cuts[k] = p) <=>
           (p - RIRunStart(text, p)) % 2 = 0)

\* the iteration from 0 ended on a text with a run of four or more
\* Regional_Indicator characters that does not start the text
C7_Witness ==
  /\ IterationDone
  /\ which = "grapheme"
  /\ \E p \in 1..Len(text) :
       /\ InsideRIRun(text, p)
       /\ RIRunStart(text, p) > 0
       /\ p - RIRunStart(text, p) >= 3

\* the text is m ALetter, one WSegSpace, n ALetter
IsTwoWords(t, m, n) ==
  /\ m >= 1
  /\ n >= 1
  /\ Len(t) = m + 1 + n
  /\ \A k \in 1..Len(t) :
       word_category(t[k]) = IF k = m + 1 THEN {"WSegSpace"} ELSE {"ALetter"}

\* C8: on ALetter^m WSegSpace ALetter^n, m, n >= 1, word_next_break returns
\* m from 0, m + 1 from m and m + 1 + n from m + 1.
C8_TwoWords ==
  (Returned /\ which = "word") =>
    \A m \in 1..Len(text) :
      IsTwoWords(text, m, Len(text) - m - 1) =>
        /\ Arg = 0 => Ret = m
        /\ Arg = m => Ret = m + 1
        /\ Arg = m + 1 => Ret = Len(text)

\* "hello world" was iterated from 0
C8_Witness ==
  /\ Returned
  /\ which = "word"
  /\ text = HelloWorld
  /\ cuts = <<0, 5, 6, 11>>

\* C9 as stated: sentence_next_break("Mr. Smith went home. He slept.", 0)
\* is 20.
C9_MrSmithOriginal ==
  (Returned /\ which = "sentence" /\ text = MrSmith /\ cuts[1] = 0) =>
    cuts[2] = 20

\* the text starts Upper Lower ATerm Sp Upper
StartsAbbreviation(t) ==
  /\ Len(t) >= 5
  /\ SubSeq(t, 1, 5) = <<"Upper", "Lower", "ATerm", "Sp", "Upper">>

\* C9 amended: on a text that starts Upper Lower ATerm Sp Upper the first
\* boundary returned from 0 is 4, after the Sp; on "Mr. Smith went home.
\* He slept." the iteration from 0 returns 4, 21 and 30.
C9_MrSmithAmended ==
  (Returned /\ which = "sentence" /\ cuts[1] = 0) =>
    /\ StartsAbbreviation(text) => cuts[2] = 4
    /\ text = MrSmith =>
         cuts = SubSeq(<<0, 4, 21, 30>>, 1, count + 1)

\* "Mr. Smith went home. He slept." was iterated from 0 to its end
C9_Witness ==
  /\ IterationDone
  /\ which = "sentence"
  /\ text = MrSmith
  /\ count = 3

\* the values returned iterating the next-break function of w from o over
\* t, in at most n calls
RECURSIVE BoundariesFrom(_, _, _, _)
BoundariesFrom(w, t, o, n) ==
  IF o >= Len(t) \/ n = 0
  THEN {o}
  ELSE {o} \cup BoundariesFrom(w, t, next_break(w, t, o), n - 1)

\* the boundaries of t for the engine w
Boundaries(w, t) == BoundariesFrom(w, t, 0, Len(t))

\* C10: for grapheme_next_break and sentence_next_break, if the call at an
\* offset of text returns a value at most k and k is a boundary of text,
\* the call at that offset of the first k characters returns the same value.
C10_PrefixStable ==
  (Returned /\ which \in {"grapheme", "sentence"}) =>
    \A k \in Boundaries(which, text) :
      Ret <= k => next_break(which, SubSeq(text, 1, k), Arg) = Ret

\* a sentence call that returned before a later boundary inside the text,
\* after the SB7 and SB8 lookaheads read past the returned value
C10_Witness ==
  /\ Returned
  /\ which = "sentence"
  /\ text = <<"Upper", "ATerm", "Sp", "Upper", "Lower">>
  /\ Arg = 0
  /\ Ret = 3

\* a grapheme call that returned before a later boundary inside the text
C10_WitnessGrapheme ==
  /\ Returned
  /\ which = "grapheme"
  /\ \E k \in Boundaries(which, text) : Ret <= k /\ k < Len(text)
  /\ Ret > Arg + 1

(***************************************************************************)
(* casefold.  A text is here a sequence of codepoints (numbers); a string  *)
(* object stores them in units of 1, 2 or 4 bytes.                         *)
(***************************************************************************)
\* longest text given to casefold
MaxFoldLen == 3

\* 'A' and 'Z' of the range tests, and the distance to 'a'
UPPER_A == 65

UPPER_Z == 90

TO_LOWER == 32

\* the largest codepoint of the fast path
ASCII_MAX == 127

\* U+00B5 MICRO SIGN
MICRO_SIGN == 181

\* the max char value asked for when U+00B5 was seen
UCS2_MAX == 65535

\* The folding table of the database: the codepoints outside A..Z that fold
\* to something else, with what they fold to.  U+00B5 -> U+03BC,
\* U+00C9 -> U+00E9, U+00DF -> "ss", U+0390 -> U+03B9 U+0308 U+0301.
CASEFOLD_TABLE(c) ==
  CASE c = MICRO_SIGN -> <<956>>
    [] c = 201 -> <<233>>
    [] c = 223 -> <<115, 115>>
    [] c = 912 -> <<953, 776, 769>>
    [] OTHER -> <<c>>

\* CASEFOLD_EXPANSION: the cases of the switch are the codepoints that fold
\* to something else; each sets changed and adds its extra codepoints
CASEFOLD_EXPANSION(c, f) ==
  IF CASEFOLD_TABLE(c) = <<c>>
    THEN f
    ELSE [f EXCEPT !.changed = TRUE,
                   !.expansion = @ + Len(CASEFOLD_TABLE(c)) - 1]

\* the largest codepoint of a text
MaxOf(t) == IF t = <<>> THEN 0 ELSE CHOOSE m \in {t[k] : k \in 1..Len(t)} :
                                      \A k \in 1..Len(t) : t[k] <= m

\* PyUnicode_MAX_CHAR_VALUE of a string made for codepoints up to m: the
\* largest codepoint its kind (ASCII, 1, 2 or 4 bytes a unit) can hold.  A
\* string keeps the kind it was made with, whatever was written into it.
PyUnicode_MAX_CHAR_VALUE(m) ==
  IF m <= ASCII_MAX THEN ASCII_MAX
  ELSE IF m <= 255 THEN 255
  ELSE IF m <= UCS2_MAX THEN UCS2_MAX
  ELSE 1114111

\* PyUnicode_WRITE into a string made by PyUnicode_New(size, maxchar): the
\* codepoint is cut to the width of the units of the string
PyUnicode_WRITE(maxchar, c) ==
  IF maxchar <= 255 THEN c % 256
  ELSE IF maxchar <= UCS2_MAX THEN c % (UCS2_MAX + 1)
  ELSE c

\* source_char >= 'A' && source_char <= 'Z'
ascii_detect_NoZ(c) == c >= UPPER_A /\ c < UPPER_Z

ascii_detect(c) == c >= UPPER_A /\ c <= UPPER_Z

\* if (source_char >= 'A' && source_char <= 'Z') source_char += 32;
ascii_lower_NoLowerBound(c) == IF c <= UPPER_Z THEN c + TO_LOWER ELSE c

ascii_lower(c) == IF c >= UPPER_A /\ c <= UPPER_Z THEN c + TO_LOWER ELSE c

\* A string object returned by casefold: value its codepoints, maxchar the
\* max char value of its kind, is_text whether it is the argument itself
\* (Py_NewRef(text)), allocated the length it was created with, written
\* the number of codepoints stored.
\* NULL is what a failed call returns.
NULL == [null |-> TRUE]

NewRef(t, maxchar) ==
  [null |-> FALSE, value |-> t, maxchar |-> maxchar, is_text |-> TRUE,
   allocated |-> Len(t), written |-> Len(t)]

NewString(v, size, maxchar) ==
  [null |-> FALSE, value |-> v, maxchar |-> PyUnicode_MAX_CHAR_VALUE(maxchar),
   is_text |-> FALSE, allocated |-> size, written |-> Len(v)]

\* the first loop of casefold_ascii: the position of the first A..Z
RECURSIVE ascii_scan(_, _)
ascii_scan(t, source_pos) ==
  IF source_pos < Len(t) /\ ~ascii_detect(t[source_pos + 1])
    THEN ascii_scan(t, source_pos + 1)
    ELSE source_pos

\* the second loop of casefold_ascii
ascii_fill(t) == [k \in 1..Len(t) |-> PyUnicode_WRITE(ASCII_MAX, ascii_lower(t[k]))]

\* casefold_ascii; mem tells whether PyUnicode_New returns a string
casefold_ascii(t, mem) ==
  IF ascii_scan(t, 0) = Len(t) THEN NewRef(t, ASCII_MAX)
  ELSE IF ~mem THEN NULL
  ELSE NewString(ascii_fill(t), Len(t), ASCII_MAX)

\* Py_MAX
Py_MAX(a, b) == IF a > b THEN a ELSE b

\* the locals of casefold before the first loop
FoldFrame == [changed |-> FALSE, UB5_seen |-> FALSE, expansion |-> 0]

\* one pass of the body of the first loop
first_pass_char_NoExpansion(c, f) ==
  IF ascii_detect(c) \/ CASEFOLD_TABLE(c) # <<c>>
    THEN [f EXCEPT !.changed = TRUE]
    ELSE f

first_pass_char(c, f) ==
  IF ascii_detect(c)
    THEN [f EXCEPT !.changed = TRUE]
    ELSE CASEFOLD_EXPANSION(c, [f EXCEPT !.UB5_seen = @ \/ c = MICRO_SIGN])

\* the first loop of casefold
RECURSIVE first_pass(_, _, _)
first_pass(t, source_pos, f) ==
  IF source_pos < Len(t)
    THEN first_pass(t, source_pos + 1, first_pass_char(t[source_pos + 1], f))
    ELSE f

\* dest_max, for a text of max char value maxchar
dest_max_NoUB5(maxchar, f) == maxchar

dest_max(maxchar, f) == Py_MAX(maxchar, IF f.UB5_seen THEN UCS2_MAX ELSE 0)

\* one pass of the body of the second loop: the codepoints written for the
\* source codepoint c (CASEFOLD_WRITE writes all but the last, WRITE_DEST
\* the last)
second_pass_char(c) ==
  IF ascii_detect(c) THEN <<ascii_lower(c)>> ELSE CASEFOLD_TABLE(c)

\* the second loop of casefold: what is in dest after it
RECURSIVE second_pass(_, _, _)
second_pass(t, source_pos, maxchar) ==
  IF source_pos < Len(t)
    THEN [k \in 1..Len(second_pass_char(t[source_pos + 1])) |->
            PyUnicode_WRITE(maxchar, second_pass_char(t[source_pos + 1])[k])]
         \o second_pass(t, source_pos + 1, maxchar)
    ELSE <<>>

(***************************************************************************)
(* The caller of casefold: it folds a text and then folds the result.      *)
(* text is the argument of the call in progress and args.maxchar the max   *)
(* char value of that string, count the number of calls made before it,    *)
(* frame the locals after the first loop, result the object returned.      *)
(***************************************************************************)
FoldAlphabet == {48, 65, 90, 97, 115, 127, 181, 201, 223, 912, 956}

\* "Straße" and "Aµ"
FoldLiterals == {<<83, 116, 114, 97, 223, 101>>, <<65, 181>>}

FoldTexts == TextsOver(FoldAlphabet, MaxFoldLen) \cup FoldLiterals

FoldInit ==
  /\ text \in FoldTexts
  /\ count = 0
  /\ pc = "idle"
  /\ frame = FoldFrame
  /\ result = <<>>
  /\ args = [maxchar |-> PyUnicode_MAX_CHAR_VALUE(MaxOf(text))]
  /\ heap = <<>>
  /\ which = "casefold"
  /\ offset = 0
  /\ cuts = <<>>
  /\ it = NoIterator

\* if (PyUnicode_MAX_CHAR_VALUE(text) <= 127) return casefold_ascii(text);
CasefoldAscii ==
  /\ pc = "idle"
  /\ args.maxchar <= ASCII_MAX
  /\ \E mem \in BOOLEAN : result' = casefold_ascii(text, mem)
  /\ pc' = "done"
  /\ UNCHANGED <<which, text, offset, count, cuts, it, args, frame, heap>>

\* the first loop
CasefoldFirstPass ==
  /\ pc = "idle"
  /\ args.maxchar > ASCII_MAX
  /\ frame' = first_pass(text, 0, FoldFrame)
  /\ pc' = "scanned"
  /\ UNCHANGED <<which, text, offset, count, cuts, it, args, result, heap>>

\* if (!changed) return Py_NewRef(text);
CasefoldUnchanged ==
  /\ pc = "scanned"
  /\ ~frame.changed
  /\ result' = NewRef(text, args.maxchar)
  /\ pc' = "done"
  /\ UNCHANGED <<which, text, offset, count, cuts, it, args, frame, heap>>

\* PyUnicode_New(source_length + expansion, dest_max) and the second loop
CasefoldSecondPass ==
  /\ pc = "scanned"
  /\ frame.changed
  /\ result' = NewString(second_pass(text, 0, dest_max(args.maxchar, frame)),
                         Len(text) + frame.expansion,
                         dest_max(args.maxchar, frame))
  /\ pc' = "done"
  /\ UNCHANGED <<which, text, offset, count, cuts, it, args, frame, heap>>

\* if (!dest) return NULL;
CasefoldNoMemory ==
  /\ pc = "scanned"
  /\ frame.changed
  /\ result' = NULL
  /\ pc' = "done"
  /\ UNCHANGED <<which, text, offset, count, cuts, it, args, frame, heap>>

\* the caller folds the text returned
CasefoldAgain ==
  /\ pc = "done"
  /\ count = 0
  /\ ~result.null
  /\ text' = result.value
  /\ args' = [maxchar |-> result.maxchar]
  /\ count' = count + 1
  /\ frame' = FoldFrame
  /\ pc' = "idle"
  /\ UNCHANGED <<which, offset, cuts, it, result, heap>>

FoldNext ==
  \/ CasefoldAscii
  \/ CasefoldFirstPass
  \/ CasefoldUnchanged
  \/ CasefoldSecondPass
  \/ CasefoldNoMemory
  \/ CasefoldAgain

SpecFold == FoldInit /\ [][FoldNext]_vars

\* the call in progress has returned a string
Folded == pc = "done" /\ ~result.null

\* fold_one of a codepoint: what folding makes of it
fold_one(c) == IF c \in UPPER_A..UPPER_Z THEN <<c + TO_LOWER>> ELSE CASEFOLD_TABLE(c)

RECURSIVE FoldAll(_)
FoldAll(t) == IF t = <<>> THEN <<>> ELSE fold_one(Head(t)) \o FoldAll(Tail(t))

\* C11: folding is idempotent: the second call, made on the text the first
\* call returned, returns a text with the same codepoints.
C11_Idempotent == (Folded /\ count = 1) => result.value = text

\* the first call changed the text (an expansion to three codepoints and
\* U+00B5 among the changes) and the second call has returned
C11_Witness ==
  /\ Folded
  /\ count = 1
  /\ text = <<953, 776, 769, 956>>
  /\ result.value = text

C11_WitnessAscii == Folded /\ count = 1 /\ text = <<97, 48, 122>>

\* C12: on a text whose codepoints are all at most 0x7F casefold returns a
\* text of the same length with every A..Z replaced by the a..z 32 above it
\* and every other codepoint as it was; without any A..Z it returns the
\* argument itself.
C12_AsciiLower ==
  (Folded /\ MaxOf(text) <= 127) =>
    /\ Len(result.value) = Len(text)
    /\ \A k \in 1..Len(text) :
         result.value[k] =
           IF text[k] \in 65..90 THEN text[k] + 32 ELSE text[k]
    /\ (\A k \in 1..Len(text) : text[k] \notin 65..90) => result.is_text

\* "A0Z" has been folded to the new string "a0z"
C12_Witness ==
  /\ Folded
  /\ text = <<65, 48, 90>>
  /\ result.value = <<97, 48, 122>>
  /\ ~result.is_text

\* "a0" has been returned as it is
C12_WitnessUnchanged == Folded /\ count = 0 /\ text = <<97, 48>> /\ result.is_text

\* C13: on the general path the text returned is the folds of the
\* codepoints of the argument in their order; the length the string was
\* created with is the length of the argument plus the extra codepoints of
\* the folds and is the number of codepoints the second loop wrote; and the
\* argument itself is returned exactly when folding changes no codepoint.
C13_GeneralPath ==
  (Folded /\ args.maxchar > 127) =>
    /\ result.value = FoldAll(text)
    /\ result.allocated = Len(FoldAll(text))
    /\ result.allocated = result.written
    /\ result.is_text <=> \A k \in 1..Len(text) : fold_one(text[k]) = <<text[k]>>

\* "Aßΐ" has been folded to a string of six codepoints
C13_Witness ==
  /\ Folded
  /\ text = <<65, 223, 912>>
  /\ result.value = <<97, 115, 115, 953, 776, 769>>
  /\ result.allocated = 6
  /\ ~result.is_text

\* U+00B5 has been folded to U+03BC, which a string of one-byte units
\* could not hold
C13_WitnessMicro == Folded /\ text = <<181>> /\ result.value = <<956>>

\* a text above 0x7F that folding leaves alone is returned as it is
C13_WitnessUnchanged == Folded /\ text = <<956, 97>> /\ result.is_text

\* "ss", folded from U+00DF into a string of kind Latin-1, is folded on the
\* general path and returned as it is
C13_WitnessKind ==
  Folded /\ count = 1 /\ text = <<115, 115>> /\ args.maxchar = 255 /\ result.is_text

(***************************************************************************)
(* grapheme_substr.  The text is a sequence of characters of the grapheme  *)
(* classifier.  An optional argument is a sequence of no or one number     *)
(* (<<>> is None).                                                         *)
(***************************************************************************)
\* longest text given to grapheme_substr
MaxSubstrLen == 3

\* ARG_ifnone(start = 0), ARG_ifnone(stop = len_text)
ARG_ifnone(arg, default) == IF arg = <<>> THEN default ELSE arg[1]

\* the test of the early return of the empty string
EarlyEmpty(len_text, start, stop) ==
  \/ start > len_text
  \/ start = stop
  \/ stop = 0
  \/ (start > 0 /\ stop >= 0 /\ start >= stop)

\* if (start < 0 || stop < 0): the offsets of the whole text are needed
NeedOffsets(start, stop) == start < 0 \/ stop < 0

\* Py_ssize_t start_offset = (start == 0) ? 0 : len_text;
StartOffsetInit_Zero(start, len_text) == 0

StartOffsetInit(start, len_text) == IF start = 0 THEN 0 ELSE len_text

\* The locals of grapheme_substr before the loop.  offsets tells whether
\* the list exists and list is what it holds; calls counts the calls of
\* grapheme_next_break.
SubstrFrame(t, start, stop) ==
  [start |-> start, stop |-> stop,
   offsets |-> NeedOffsets(start, stop),
   list |-> IF NeedOffsets(start, stop) THEN <<0>> ELSE <<>>,
   count |-> 0, text_offset |-> 0,
   start_offset |-> StartOffsetInit(start, Len(t)),
   stop_offset |-> Len(t),
   calls |-> 0]

\* if (stop == count)
StopHit_Early(stop, n) == stop = n + 1

StopHit(stop, n) == stop = n

\* One pass of the body of the loop, every allocation succeeding, where
\* grapheme_next_break(text, text_offset) returned next: the frame after it
\* and whether it left the loop by break.
SubstrBody(f, next) ==
  [f |-> [f EXCEPT
            !.text_offset = next,
            !.count = @ + 1,
            !.calls = @ + 1,
            !.list = IF f.offsets THEN Append(@, next) ELSE @,
            !.start_offset = IF f.start = f.count + 1 THEN next ELSE @,
            !.stop_offset = IF StopHit(f.stop, f.count + 1) THEN next ELSE @],
   break |-> StopHit(f.stop, f.count + 1) /\ ~f.offsets]

\* while (text_offset < len_text)
SubstrLoopTest(t, f) == f.text_offset < Len(t)

RECURSIVE SubstrLoop(_, _)
SubstrLoop(t, f) ==
  IF SubstrLoopTest(t, f)
    THEN LET b == SubstrBody(f, grapheme_next_break(t, f.text_offset))
         IN IF b.break THEN b.f ELSE SubstrLoop(t, b.f)
    ELSE f

\* PySlice_AdjustIndices(length, &start, &stop, 1)
PySlice_AdjustIndices(length, start, stop) ==
  LET adjust(i) ==
        IF i < 0 THEN (IF i + length < 0 THEN 0 ELSE i + length)
        ELSE IF i >= length THEN length ELSE i
  IN [start |-> adjust(start), stop |-> adjust(stop),
      nchars |-> IF adjust(start) < adjust(stop)
                   THEN adjust(stop) - adjust(start) ELSE 0]

\* PyUnicode_Substring(text, start, end)
PyUnicode_Substring(t, start, end) ==
  IF start >= end THEN <<>> ELSE SubSeq(t, start + 1, end)

\* a string returned
Str(v) == [null |-> FALSE, value |-> v]

\* assert(stop_offset > start_offset)
SubstrAssert(f) == f.stop_offset > f.start_offset

\* what is returned after the loop when no allocation fails and the
\* assertion does not stop the program
SubstrFinish(t, f) ==
  IF ~f.offsets
    THEN Str(PyUnicode_Substring(t, f.start_offset, f.stop_offset))
    ELSE LET adj == PySlice_AdjustIndices(Len(f.list) - 1, f.start, f.stop)
         IN IF adj.nchars # 0
              THEN Str(PyUnicode_Substring(t, f.list[adj.start + 1],
                                           f.list[adj.stop + 1]))
              ELSE Str(<<>>)

\* the frame of the call at its return, no allocation failing
SubstrRun(t, a) ==
  SubstrLoop(t, SubstrFrame(t, ARG_ifnone(a.start, 0), ARG_ifnone(a.stop, Len(t))))

\* the call reaches the loop
SubstrLoops(t, a) ==
  ~EarlyEmpty(Len(t), ARG_ifnone(a.start, 0), ARG_ifnone(a.stop, Len(t)))

\* the call reaches the assertion and the assertion fails
SubstrAsserts(t, a) ==
  /\ SubstrLoops(t, a)
  /\ ~SubstrRun(t, a).offsets
  /\ ~SubstrAssert(SubstrRun(t, a))

\* grapheme_substr(text, start, stop) when no allocation fails and the
\* assertion does not stop the program
grapheme_substr(t, a) ==
  IF SubstrLoops(t, a) THEN SubstrFinish(t, SubstrRun(t, a)) ELSE Str(<<>>)

(***************************************************************************)
(* A call of grapheme_substr.  args holds start and stop as given, frame   *)
(* the locals, result the object returned.  heap holds the reference       *)
(* counts of the objects the call created: list of the offsets list (0     *)
(* when it does not exist or is freed) and ints of the numbers made for    *)
(* it, in the order they were made (the first Len(frame.list) of them are  *)
(* in the list).  pc is "abort" when an assertion stopped the program.     *)
(***************************************************************************)
SubstrAlphabet == {"Other", "Extend", "CR", "LF"}

SubstrTexts == TextsOver(SubstrAlphabet, MaxSubstrLen)

\* the values of start and stop: None and the numbers around the lengths
SubstrIndices ==
  {<<>>} \cup {<<n>> : n \in (0 - MaxSubstrLen - 1)..(MaxSubstrLen + 1)}

NoObjects == [list |-> 0, ints |-> <<>>]

SubstrInit ==
  /\ text \in SubstrTexts
  /\ args \in [start : SubstrIndices, stop : SubstrIndices]
  /\ frame = SubstrFrame(text, ARG_ifnone(args.start, 0),
                         ARG_ifnone(args.stop, Len(text)))
  /\ heap = NoObjects
  /\ result = <<>>
  /\ pc = "idle"
  /\ which = "grapheme"
  /\ offset = 0
  /\ count = 0
  /\ cuts = <<>>
  /\ it = NoIterator

\* Py_CLEAR(offsets): the list goes and gives up its reference to each item
Py_CLEAR_offsets(h, f) ==
  IF h.list = 0 THEN h
  ELSE [list |-> 0,
        ints |-> [k \in 1..Len(h.ints) |->
                    IF k <= Len(f.list) THEN h.ints[k] - 1 ELSE h.ints[k]]]

\* return PyUnicode_New(0, 0);
SubstrEarly ==
  /\ pc = "idle"
  /\ ~SubstrLoops(text, args)
  /\ result' = Str(<<>>)
  /\ pc' = "done"
  /\ UNCHANGED <<which, text, offset, count, cuts, it, args, frame, heap>>

\* neither start nor stop is negative: no list
SubstrEnter ==
  /\ pc = "idle"
  /\ SubstrLoops(text, args)
  /\ ~frame.offsets
  /\ pc' = "while"
  /\ UNCHANGED <<which, text, offset, count, cuts, it, args, frame, result, heap>>

\* offsets = PyList_New(1); PyList_SET_ITEM(offsets, 0, zero);
SubstrEnterList ==
  /\ pc = "idle"
  /\ SubstrLoops(text, args)
  /\ frame.offsets
  /\ heap' = [list |-> 1, ints |-> <<1>>]
  /\ pc' = "while"
  /\ UNCHANGED <<which, text, offset, count, cuts, it, args, frame, result>>

\* PyList_New or PyLong_FromLong returns NULL: goto error
SubstrListFails ==
  /\ pc = "idle"
  /\ SubstrLoops(text, args)
  /\ frame.offsets
  /\ \E made \in BOOLEAN :
       heap' = Py_CLEAR_offsets([list |-> IF made THEN 1 ELSE 0, ints |-> <<>>],
                                [frame EXCEPT !.list = <<>>])
  /\ result' = NULL
  /\ pc' = "done"
  /\ UNCHANGED <<which, text, offset, count, cuts, it, args, frame>>

\* the reference count of o after PyList_Append(offsets, o) succeeded: one
\* reference is the caller's, one the list's
AppendedRefs == 2

\* one pass of the loop
SubstrPass ==
  /\ pc = "while"
  /\ SubstrLoopTest(text, frame)
  /\ \E next \in {grapheme_next_break(text, frame.text_offset)} :
       /\ frame' = SubstrBody(frame, next).f
       /\ pc' = IF SubstrBody(frame, next).break THEN "after" ELSE "while"
  /\ heap' = IF frame.offsets
               THEN [heap EXCEPT !.ints = Append(@, AppendedRefs)]
               ELSE heap
  /\ UNCHANGED <<which, text, offset, count, cuts, it, args, result>>

\* PyLong_FromSsize_t returns NULL, or PyList_Append fails and o is
\* released: goto error
SubstrAppendFails ==
  /\ pc = "while"
  /\ SubstrLoopTest(text, frame)
  /\ frame.offsets
  /\ frame' = [frame EXCEPT
                 !.text_offset = grapheme_next_break(text, frame.text_offset),
                 !.count = @ + 1,
                 !.calls = @ + 1]
  /\ \E made \in BOOLEAN :
       heap' = Py_CLEAR_offsets(
                 [heap EXCEPT !.ints = IF made THEN Append(@, 0) ELSE @], frame)
  /\ result' = NULL
  /\ pc' = "done"
  /\ UNCHANGED <<which, text, offset, count, cuts, it, args>>

\* the loop test fails
SubstrLoopExit ==
  /\ pc = "while"
  /\ ~SubstrLoopTest(text, frame)
  /\ pc' = "after"
  /\ UNCHANGED <<which, text, offset, count, cuts, it, args, frame, result, heap>>

\* assert(stop_offset > start_offset) fails in a build with assertions
SubstrAbort ==
  /\ pc = "after"
  /\ ~frame.offsets
  /\ ~SubstrAssert(frame)
  /\ pc' = "abort"
  /\ UNCHANGED <<which, text, offset, count, cuts, it, args, frame, result, heap>>

\* The return after the loop: the assertion holds or is compiled out; the
\* list, if any, is cleared; PyUnicode_Substring may return NULL.
SubstrReturn ==
  /\ pc = "after"
  /\ heap' = Py_CLEAR_offsets(heap, frame)
  /\ \E mem \in BOOLEAN :
       result' = IF mem \/ SubstrFinish(text, frame).value = <<>>
                   THEN SubstrFinish(text, frame) ELSE NULL
  /\ pc' = "done"
  /\ UNCHANGED <<which, text, offset, count, cuts, it, args, frame>>

SubstrNext ==
  \/ SubstrEarly
  \/ SubstrEnter
  \/ SubstrEnterList
  \/ SubstrListFails
  \/ SubstrPass
  \/ SubstrAppendFails
  \/ SubstrLoopExit
  \/ SubstrAbort
  \/ SubstrReturn

SpecSubstr == SubstrInit /\ [][SubstrNext]_vars

\* the call has ended: it returned or an assertion stopped the program
SubstrEnded == pc \in {"done", "abort"}

\* the call returned a string
SubstrReturned == pc = "done" /\ ~result.null

\* the k-th boundary of the set B of boundaries, from 0
NthBoundary(B, k) == CHOOSE b \in B : Cardinality({x \in B : x < b}) = k

\* The slice G[start:stop] of the list G of the grapheme clusters of t, put
\* together again: an index below 0 counts from the end, an index outside
\* the list is the nearest end, None is the begin or the end.
ClusterSlice(t, a) ==
  LET B == Boundaries("grapheme", t)
      n == Cardinality(B) - 1
      Clamp(i) == IF i < 0 THEN 0 ELSE IF i > n THEN n ELSE i
      Index(arg, default) ==
        IF arg = <<>> THEN default
        ELSE IF arg[1] < 0 THEN Clamp(arg[1] + n) ELSE Clamp(arg[1])
      lo == Index(a.start, 0)
      hi == Index(a.stop, n)
  IN IF lo >= hi THEN <<>>
     ELSE SubSeq(t, NthBoundary(B, lo) + 1, NthBoundary(B, hi))

\* C14: for every text and every start and stop, numbers or None, the call
\* of grapheme_substr returns the clusters G[start:stop] of the list G of
\* the grapheme clusters of the text, with the meaning of a list slice.
C14_SubstrIsSlice ==
  (SubstrReturned \/ pc = "abort") =>
    /\ pc = "done"
    /\ result.value = ClusterSlice(text, args)

\* whenever a string is returned it is the slice
SubstrValueIsSlice == SubstrReturned => result.value = ClusterSlice(text, args)

\* both arguments are numbers, 0 <= start <= stop
ForwardArgs ==
  /\ args.start # <<>>
  /\ args.stop # <<>>
  /\ 0 <= args.start[1]
  /\ args.start[1] <= args.stop[1]

\* C15: for indices 0 <= i <= j <= k the calls (i, j) and (j, k) return
\* texts that put together are the text the call (i, k) returns, also with
\* j or k at or after the number of clusters.  The call in progress is the
\* call (i, k).
C15_Concatenation ==
  ((SubstrReturned \/ pc = "abort") /\ ForwardArgs) =>
    /\ pc = "done"
    /\ \A j \in args.start[1]..args.stop[1] :
         LET ij == [start |-> args.start, stop |-> <<j>>]
             jk == [start |-> <<j>>, stop |-> args.stop]
         IN /\ ~SubstrAsserts(text, ij)
            /\ ~SubstrAsserts(text, jk)
            /\ grapheme_substr(text, ij).value \o grapheme_substr(text, jk).value
                 = result.value

\* whenever the three calls return strings, the first two put together are
\* the third
SubstrValuesConcatenate ==
  (SubstrReturned /\ ForwardArgs) =>
    \A j \in args.start[1]..args.stop[1] :
      grapheme_substr(text, [start |-> args.start, stop |-> <<j>>]).value
        \o grapheme_substr(text, [start |-> <<j>>, stop |-> args.stop]).value
        = result.value

\* C19: when grapheme_substr returns, with a string or with an error, the
\* offsets list and every number made for it have been released: none has
\* a reference left.
C19_NoReferencesLeft ==
  pc = "done" =>
    /\ heap.list = 0
    /\ \A k \in 1..Len(heap.ints) : heap.ints[k] = 0

(***************************************************************************)
(* has_category.  A character is named by its general category; the        *)
(* classifier gives it the mask with the one flag of that category.  mask  *)
(* is a set of flags.  The argument parser has accepted the arguments:     *)
(* start and end are offsets of the text.                                  *)
(***************************************************************************)
\* longest text given to has_category
MaxCatLen == 3

CategoryChars == {"Lu", "Ll", "Nd", "Zs"}

category_category(c) == {c}

CategoryMasks == SUBSET {"Lu", "Ll", "Nd"}

HasCategoryInit ==
  /\ text \in TextsOver(CategoryChars, MaxCatLen)
  /\ \E start \in 0..Len(text), end \in 0..Len(text), mask \in CategoryMasks :
       /\ args = [start |-> start, end |-> end, mask |-> mask]
       /\ frame = [start |-> start]
  /\ pc = "while"
  /\ result = <<>>
  /\ heap = <<>>
  /\ which = "general"
  /\ offset = 0
  /\ count = 0
  /\ cuts = <<>>
  /\ it = NoIterator

\* while (start < end)
HasCategoryLoopTest_SkipLast(start, end) == start + 1 < end

HasCategoryLoopTest(start, end) == start < end

\* if (category_category(PyUnicode_READ(kind, data, start)) & mask)
HasCategoryMatch(t, start, mask) == Has(category_category(t[start + 1]), mask)

\* Py_RETURN_TRUE
HasCategoryTrue ==
  /\ pc = "while"
  /\ HasCategoryLoopTest(frame.start, args.end)
  /\ HasCategoryMatch(text, frame.start, args.mask)
  /\ result' = [null |-> FALSE, value |-> TRUE]
  /\ pc' = "done"
  /\ UNCHANGED <<which, text, offset, count, cuts, it, args, frame, heap>>

\* start++
HasCategoryPass ==
  /\ pc = "while"
  /\ HasCategoryLoopTest(frame.start, args.end)
  /\ ~HasCategoryMatch(text, frame.start, args.mask)
  /\ frame' = [frame EXCEPT !.start = @ + 1]
  /\ UNCHANGED <<which, text, offset, count, cuts, pc, it, args, result, heap>>

\* Py_RETURN_FALSE
HasCategoryFalse ==
  /\ pc = "while"
  /\ ~HasCategoryLoopTest(frame.start, args.end)
  /\ result' = [null |-> FALSE, value |-> FALSE]
  /\ pc' = "done"
  /\ UNCHANGED <<which, text, offset, count, cuts, it, args, frame, heap>>

HasCategoryNext ==
  \/ HasCategoryTrue
  \/ HasCategoryPass
  \/ HasCategoryFalse

SpecHasCategory == HasCategoryInit /\ [][HasCategoryNext]_vars

\* C16: has_category returns true exactly when some index i with
\* start <= i < end holds a character whose general category mask shares a
\* flag with mask; so it returns false for the mask 0 and for start >= end.
C16_HasCategory ==
  pc = "done" =>
    /\ result.value <=>
         \E i \in args.start..(args.end - 1) :
           (category_category(text[i + 1]) \cap args.mask) # {}
    /\ args.mask = {} => ~result.value
    /\ args.start >= args.end => ~result.value

\* "abc123" in small: a digit at the last index of the range is found
C16_Witness ==
  /\ pc = "done"
  /\ text = <<"Ll", "Ll", "Nd">>
  /\ args = [start |-> 0, end |-> 3, mask |-> {"Nd"}]
  /\ result.value

\* the mask 0 on a range that is not empty
C16_WitnessZero ==
  pc = "done" /\ args.mask = {} /\ args.start < args.end /\ ~result.value

\* an empty range under a mask that matches the text
C16_WitnessEmpty ==
  /\ pc = "done"
  /\ text = <<"Lu">>
  /\ args = [start |-> 1, end |-> 0, mask |-> {"Lu"}]
  /\ ~result.value

(***************************************************************************)
(* category_name.  args holds which and the codepoint, a character of the  *)
(* classifier asked for; frame the mask val, the number next of the X(v)   *)
(* done and the tuple res (has_res tells whether res is not NULL).         *)
(* result.error names the exception set when the call returned.            *)
(***************************************************************************)
\* ALL_GC_VALUES, ALL_WC_VALUES, ALL_SC_VALUES: the flags in the order of
\* the X(v)
ALL_GC_VALUES ==
  <<"CR", "LF", "Control", "Extend", "ZWJ", "Regional_Indicator", "Prepend",
    "SpacingMark", "L", "V", "T", "LV", "LVT", "Extended_Pictographic",
    "InCB_Linker", "InCB_Consonant", "InCB_Extend", "Other">>

ALL_WC_VALUES ==
  <<"CR", "LF", "Newline", "Extend", "ZWJ", "Regional_Indicator", "Format",
    "Katakana", "Hebrew_Letter", "ALetter", "Single_Quote", "Double_Quote",
    "MidNumLet", "MidLetter", "MidNum", "Numeric", "ExtendNumLet", "WSegSpace",
    "Extended_Pictographic", "Other">>

ALL_SC_VALUES ==
  <<"CR", "LF", "Extend", "Sep", "Format", "Sp", "Lower", "Upper", "OLetter",
    "Numeric", "ATerm", "SContinue", "STerm", "Close", "Other">>

ALL_VALUES(w) ==
  CASE w = "grapheme" -> ALL_GC_VALUES
    [] w = "word" -> ALL_WC_VALUES
    [] w = "sentence" -> ALL_SC_VALUES

\* the characters of the classifier w
CharsOf(w) ==
  CASE w = "grapheme" -> GCChars
    [] w = "word" -> WCChars
    [] w = "sentence" -> SCChars
    [] OTHER -> {"Other"}

\* the values of which: the three engines and two other strings
WhichValues == Engines \cup {"general", ""}

CategoryNameInit ==
  /\ \E w \in WhichValues : \E c \in CharsOf(w) :
       args = [which |-> w, codepoint |-> c]
  /\ frame = [val |-> {}, next |-> 0, has_res |-> FALSE, res |-> <<>>]
  /\ pc = "idle"
  /\ result = <<>>
  /\ heap = <<>>
  /\ text = <<>>
  /\ which = "category_name"
  /\ offset = 0
  /\ count = 0
  /\ cuts = <<>>
  /\ it = NoIterator

\* a tuple returned; NULL returned with or without an exception set
Tuple(v) == [null |-> FALSE, value |-> v, error |-> "none"]

Raised(e) == [null |-> TRUE, error |-> e]

\* the strcmp chain picks the classifier: val = ..._category(codepoint)
CategoryNameWhich ==
  /\ pc = "idle"
  /\ args.which \in Engines
  /\ frame' = [frame EXCEPT !.val = cat_func(args.which, args.codepoint)]
  /\ pc' = "values"
  /\ UNCHANGED <<which, text, offset, count, cuts, it, args, result, heap>>

\* else: PyErr_Format(PyExc_ValueError, ...); Py_CLEAR(res); return res;
CategoryNameUnknown ==
  /\ pc = "idle"
  /\ args.which \notin Engines
  /\ result' = Raised("ValueError")
  /\ pc' = "done"
  /\ UNCHANGED <<which, text, offset, count, cuts, it, args, frame, heap>>

\* if ((val & v) == v)
XTest(val, v) == ({v} \cap val) = {v}

\* X(v) for the next v, its bit not set
CategoryNameSkip ==
  /\ pc = "values"
  /\ frame.next < Len(ALL_VALUES(args.which))
  /\ ~XTest(frame.val, ALL_VALUES(args.which)[frame.next + 1])
  /\ frame' = [frame EXCEPT !.next = @ + 1]
  /\ UNCHANGED <<which, text, offset, count, cuts, pc, it, args, result, heap>>

\* X(v) for the next v, its bit set: res becomes a tuple of one, or grows
\* by one, and takes the name
CategoryNameAdd ==
  /\ pc = "values"
  /\ frame.next < Len(ALL_VALUES(args.which))
  /\ XTest(frame.val, ALL_VALUES(args.which)[frame.next + 1])
  /\ frame' = [frame EXCEPT
                 !.next = @ + 1,
                 !.has_res = TRUE,
                 !.res = Append(@, ALL_VALUES(args.which)[frame.next + 1])]
  /\ UNCHANGED <<which, text, offset, count, cuts, pc, it, args, result, heap>>

\* X(v), its bit set, and PyUnicode_FromString, PyTuple_New or
\* _PyTuple_Resize fails: goto error
CategoryNameNoMemory ==
  /\ pc = "values"
  /\ frame.next < Len(ALL_VALUES(args.which))
  /\ XTest(frame.val, ALL_VALUES(args.which)[frame.next + 1])
  /\ frame' = [frame EXCEPT !.has_res = FALSE, !.res = <<>>]
  /\ result' = Raised("MemoryError")
  /\ pc' = "done"
  /\ UNCHANGED <<which, text, offset, count, cuts, it, args, heap>>

\* return res;
CategoryNameReturn(f) == IF f.has_res THEN Tuple(f.res) ELSE Raised("none")

CategoryNameDone ==
  /\ pc = "values"
  /\ frame.next = Len(ALL_VALUES(args.which))
  /\ result' = CategoryNameReturn(frame)
  /\ pc' = "done"
  /\ UNCHANGED <<which, text, offset, count, cuts, it, args, frame, heap>>

CategoryNameNext ==
  \/ CategoryNameWhich
  \/ CategoryNameUnknown
  \/ CategoryNameSkip
  \/ CategoryNameAdd
  \/ CategoryNameNoMemory
  \/ CategoryNameDone

SpecCategoryName == CategoryNameInit /\ [][CategoryNameNext]_vars

\* the names of the flags of the mask m, in the order of the X(v) of w
RECURSIVE NamesFrom(_, _, _)
NamesFrom(w, m, k) ==
  IF k > Len(ALL_VALUES(w)) THEN <<>>
  ELSE (IF ALL_VALUES(w)[k] \in m THEN <<ALL_VALUES(w)[k]>> ELSE <<>>)
         \o NamesFrom(w, m, k + 1)

\* C17: for which among grapheme, word and sentence category_name returns
\* the tuple of the names of the flags set in the mask of the codepoint,
\* the empty tuple for the mask 0, unless an allocation failed; for another
\* which it returns NULL with an exception set; it never returns NULL
\* without an exception set.
C17_CategoryName ==
  pc = "done" =>
    /\ result.null => result.error # "none"
    /\ args.which \notin Engines => (result.null /\ result.error = "ValueError")
    /\ (args.which \in Engines /\ ~result.null) =>
         result.value = NamesFrom(args.which, cat_func(args.which, args.codepoint), 1)
    /\ (args.which \in Engines /\ result.null) => result.error = "MemoryError"

\* whenever a tuple is returned it holds the names of the flags set
CategoryNameTupleIsNames ==
  (pc = "done" /\ ~result.null) =>
    result.value = NamesFrom(args.which, cat_func(args.which, args.codepoint), 1)

(***************************************************************************)
(* Concurrent calls.  Two threads each make one call, of a next-break      *)
(* function or of casefold, and their steps interleave.  which, text,      *)
(* offset, pc and result are here functions of the thread; it and frame    *)
(* hold the TextIterator and the casefold locals of every call, which the  *)
(* code declares as automatic variables of the function called.            *)
(***************************************************************************)
\* longest text of a concurrent call
MaxThreadLen == 2

Threads == {1, 2}

\* the calls a thread can make: the function and its text
ThreadAlphabet(w) ==
  CASE w = "grapheme" -> {"Regional_Indicator", "Extend"}
    [] w = "word" -> {"ALetter", "MidLetter"}
    [] w = "sentence" -> {"ATerm", "Lower"}
    [] w = "casefold" -> {65, 223}

\* a word text that takes the goto loop_top of WB4
ThreadLiterals ==
  {[which |-> "word",
    text |-> <<"ALetter", "Extend", "ZWJ", "Extended_Pictographic">>]}

ThreadCalls ==
  UNION {{[which |-> w, text |-> t] : t \in TextsOver(ThreadAlphabet(w), MaxThreadLen)} :
           w \in Engines \cup {"casefold"}}
    \cup ThreadLiterals

\* where the locals of the call of thread t live: in its own stack frame
Slot_Static(t) == 1

Slot(t) == t

ThreadsInit ==
  /\ \E c \in [Threads -> ThreadCalls] :
       /\ which = [t \in Threads |-> c[t].which]
       /\ text = [t \in Threads |-> c[t].text]
  /\ offset = [t \in Threads |-> 0]
  /\ pc = [t \in Threads |-> "idle"]
  /\ it = [t \in Threads |-> NoIterator]
  /\ frame = [t \in Threads |-> FoldFrame]
  /\ result = [t \in Threads |-> 0]
  /\ count = 0
  /\ cuts = <<>>
  /\ args = <<>>
  /\ heap = <<>>

\* the call of a next-break function: TextIterator it = TEXT_INIT
ThreadCall(t) ==
  /\ pc[t] = "idle"
  /\ which[t] \in Engines
  /\ it' = [it EXCEPT ![Slot(t)] = TEXT_INIT(which[t], text[t], offset[t])]
  /\ pc' = [pc EXCEPT ![t] = "while"]
  /\ UNCHANGED <<which, text, offset, count, cuts, args, frame, result, heap>>

\* one pass of the loop of the engine, from the loop test or from loop_top
ThreadPass(t) ==
  /\ \/ pc[t] = "while" /\ LoopTest(text[t], it[Slot(t)])
     \/ pc[t] = "loop_top"
  /\ LET r == Body(which[t], text[t], offset[t], it[Slot(t)])
     IN /\ it' = [it EXCEPT ![Slot(t)] = r.it]
        /\ pc' = [pc EXCEPT ![t] = After(r)]
  /\ UNCHANGED <<which, text, offset, count, cuts, args, frame, result, heap>>

\* the loop test fails
ThreadLoopExit(t) ==
  /\ pc[t] = "while"
  /\ ~LoopTest(text[t], it[Slot(t)])
  /\ pc' = [pc EXCEPT ![t] = "return"]
  /\ UNCHANGED <<which, text, offset, count, cuts, it, args, frame, result, heap>>

\* return it.pos
ThreadReturn(t) ==
  /\ pc[t] = "return"
  /\ result' = [result EXCEPT ![t] = it[Slot(t)].pos]
  /\ pc' = [pc EXCEPT ![t] = "done"]
  /\ UNCHANGED <<which, text, offset, count, cuts, it, args, frame, heap>>

\* the max char value of the text of a casefold call
ThreadMaxChar(t) == PyUnicode_MAX_CHAR_VALUE(MaxOf(text[t]))

\* casefold on the fast path
ThreadFoldAscii(t) ==
  /\ pc[t] = "idle"
  /\ which[t] = "casefold"
  /\ ThreadMaxChar(t) <= ASCII_MAX
  /\ result' = [result EXCEPT ![t] = casefold_ascii(text[t], TRUE).value]
  /\ pc' = [pc EXCEPT ![t] = "done"]
  /\ UNCHANGED <<which, text, offset, count, cuts, it, args, frame, heap>>

\* the first loop of casefold
ThreadFoldFirstPass(t) ==
  /\ pc[t] = "idle"
  /\ which[t] = "casefold"
  /\ ThreadMaxChar(t) > ASCII_MAX
  /\ frame' = [frame EXCEPT ![Slot(t)] = first_pass(text[t], 0, FoldFrame)]
  /\ pc' = [pc EXCEPT ![t] = "scanned"]
  /\ UNCHANGED <<which, text, offset, count, cuts, it, args, result, heap>>

\* what casefold returns after the first loop left the locals f
AfterFirstPass(t, maxchar, f) ==
  IF ~f.changed THEN t ELSE second_pass(t, 0, dest_max(maxchar, f))

\* the rest of casefold
ThreadFoldSecondPass(t) ==
  /\ pc[t] = "scanned"
  /\ result' = [result EXCEPT
                  ![t] = AfterFirstPass(text[t], ThreadMaxChar(t), frame[Slot(t)])]
  /\ pc' = [pc EXCEPT ![t] = "done"]
  /\ UNCHANGED <<which, text, offset, count, cuts, it, args, frame, heap>>

ThreadsNext ==
  \E t \in Threads :
    \/ ThreadCall(t)
    \/ ThreadPass(t)
    \/ ThreadLoopExit(t)
    \/ ThreadReturn(t)
    \/ ThreadFoldAscii(t)
    \/ ThreadFoldFirstPass(t)
    \/ ThreadFoldSecondPass(t)

SpecThreads == ThreadsInit /\ [][ThreadsNext]_vars

\* casefold(text) run alone, no allocation failing
casefold(t) ==
  IF PyUnicode_MAX_CHAR_VALUE(MaxOf(t)) <= ASCII_MAX
    THEN casefold_ascii(t, TRUE).value
    ELSE AfterFirstPass(t, PyUnicode_MAX_CHAR_VALUE(MaxOf(t)),
                        first_pass(t, 0, FoldFrame))

\* what the call (w, t) returns when it runs alone
Alone(w, t) == IF w = "casefold" THEN casefold(t) ELSE next_break(w, t, 0)

C18_WitnessLoopTop == pc[1] = "loop_top" /\ pc[2] = "while" /\ which[2] = "word"

\* a call of casefold and a call of word_next_break have both returned
C18_WitnessFold ==
  /\ which[1] = "casefold"
  /\ which[2] = "word"
  /\ text[1] = <<65, 223>>
  /\ pc = [t \in Threads |-> "done"]
  /\ result[1] = <<97, 115, 115>>

(***************************************************************************)
(* FTS5Tokenizer.__call__ and xTokenizer_Callback of src/fts.c.  The       *)
(* wrapped tokenizer delivers the tokens args.tokens to the callback, one  *)
(* call each: flags is the set of the flag bits of iflags, start and end   *)
(* are iStart and iEnd.  A token is named by its place in args.tokens.     *)
(* An item of the list is a record: tuple tells a tuple from a plain       *)
(* string, offsets is the pair of numbers a tuple starts with (or none),   *)
(* tokens the strings in it.  frame is the TokenizingContext with the      *)
(* number of tokens delivered, rc and the exception set.                   *)
(***************************************************************************)
\* most tokens delivered in one call
MaxTokens == 3

\* the length of the utf8 of "first place"
FirstPlaceLen == 11

FTS5_TOKEN_COLOCATED == {"FTS5_TOKEN_COLOCATED"}

\* the values of iflags: 0, FTS5_TOKEN_COLOCATED, and a value with another bit
TokenFlags == {{}, FTS5_TOKEN_COLOCATED, {"FTS5_TOKEN_COLOCATED", "other"}}

\* the values of iStart, iEnd: the tokens of "first place", and ranges
\* that start before the buffer, end after it, or end before they start
TokenSpans == {<<0, 5>>, <<6, FirstPlaceLen>>, <<0 - 1, 5>>,
               <<6, FirstPlaceLen + 1>>, <<5, 0>>}

Deliveries ==
  {[flags |-> f, start |-> s[1], end |-> s[2]] :
     f \in {{}, FTS5_TOKEN_COLOCATED}, s \in TokenSpans}
  \cup {[flags |-> f, start |-> 0, end |-> 5] : f \in TokenFlags}

\* TokenizingContext our_context = { .the_list = PyList_New(0), ... }
\* no_list: PyList_New(0) returned NULL
TokenizingContext ==
  [the_list |-> <<>>, last_item |-> <<>>, delivered |-> 0,
   rc |-> "SQLITE_OK", error |-> "none", no_list |-> FALSE]

INT_MAX == 2147483647

\* arbitrary but reasonable maximum
MAX_ARGS == 128

\* the utf8 and the args of a call: the length of the buffer, the number of
\* args, and whether PyUnicode_AsUTF8 converts them
CallInputs ==
  {[utf8_len |-> l, argc |-> n, convertible |-> c] :
     l \in {FirstPlaceLen, INT_MAX}, n \in {0, MAX_ARGS, MAX_ARGS + 1},
     c \in BOOLEAN}

TooLarge(a) == a.utf8_len >= INT_MAX

TooManyArgs(a) == a.argc > MAX_ARGS

BadArg(a) == a.argc > 0 /\ ~a.convertible

\* Fts5Tokenizer *their_context = NULL; and the calls made so far of
\* PyObject_GetBufferContiguous that succeeded, of PyBuffer_Release, of
\* xCreate that returned SQLITE_OK and of xDelete
NoResources ==
  [their_context |-> <<>>, acquired |-> 0, released |-> 0,
   created |-> 0, deleted |-> 0]

\* the call reaches xCreate
ArgsAccepted(a) == ~TooLarge(a) /\ ~TooManyArgs(a) /\ ~BadArg(a)

\* the tokenizer delivers tokens only in a call that reaches xTokenize
TokenizeInit ==
  /\ \E call \in CallInputs :
       \E n \in 0..(IF ArgsAccepted(call) THEN MaxTokens ELSE 0) :
         \E toks \in [1..n -> Deliveries] :
           \E include_offsets \in BOOLEAN, include_colocated \in BOOLEAN :
             args = [tokens |-> toks, buffer_len |-> call.utf8_len,
                     utf8_len |-> call.utf8_len, argc |-> call.argc,
                     convertible |-> call.convertible,
                     include_offsets |-> include_offsets,
                     include_colocated |-> include_colocated]
  /\ frame = TokenizingContext
  /\ pc = "entry"
  /\ result = <<>>
  /\ heap = NoResources
  /\ text = <<>>
  /\ which = "tokenizer"
  /\ offset = 0
  /\ count = 0
  /\ cuts = <<>>
  /\ it = NoIterator

\* goto error, with the exception e set
CallbackError(ctx, e) == [ctx EXCEPT !.rc = "SQLITE_ERROR", !.error = e]

\* the fast exit for colocated
FastExit(ctx, a, tok) ==
  /\ tok.flags = FTS5_TOKEN_COLOCATED
  /\ ~a.include_colocated
  /\ Len(ctx.the_list) # 0

\* the colocated token name joins last_item: a tuple grows by one, a plain
\* string becomes a tuple of two
AddColocated(item, name) ==
  [item EXCEPT !.tuple = TRUE, !.tokens = Append(@, name)]

\* if (our_context->last_item) PyList_Append(the_list, last_item);
FlushLast(ctx) ==
  IF ctx.last_item # <<>>
    THEN [ctx EXCEPT !.the_list = Append(@, ctx.last_item[1]), !.last_item = <<>>]
    ELSE ctx

\* the new token: a tuple (start, end, token) kept as last_item, or the
\* plain string put in the list
NewToken(ctx, a, tok, name) ==
  IF a.include_offsets
    THEN [ctx EXCEPT !.last_item =
            <<[tuple |-> TRUE, offsets |-> <<tok.start, tok.end>>, tokens |-> <<name>>]>>]
    ELSE [ctx EXCEPT !.the_list =
            Append(@, [tuple |-> FALSE, offsets |-> <<>>, tokens |-> <<name>>])]

\* xTokenizer_Callback for the token tok, named name; mem tells whether
\* the allocations succeed.  The context after it, with rc what it returns.
xTokenizer_Callback(ctx, a, tok, name, mem) ==
  IF tok.flags # {} /\ tok.flags # FTS5_TOKEN_COLOCATED
    THEN CallbackError(ctx, "ValueError")
  ELSE IF tok.start < 0 \/ tok.end > a.buffer_len
    THEN CallbackError(ctx, "ValueError")
  ELSE IF FastExit(ctx, a, tok) THEN ctx
  ELSE IF ~mem THEN CallbackError(ctx, "MemoryError")
  ELSE IF tok.flags = FTS5_TOKEN_COLOCATED
    THEN IF ctx.last_item = <<>>
           THEN CallbackError(ctx, "ValueError")
           ELSE [ctx EXCEPT !.last_item = <<AddColocated(ctx.last_item[1], name)>>]
  ELSE NewToken(FlushLast(ctx), a, tok, name)

\* an exception is set and control goes to finally with rc as it is
GotoFinally(ctx, e) == [ctx EXCEPT !.error = e]

\* if (0 != PyObject_GetBufferContiguous(utf8, &utf8_buffer, PyBUF_SIMPLE))
\* return NULL;
TokenizeGetBuffer ==
  /\ pc = "entry"
  /\ \E ok \in BOOLEAN :
       IF ok
         THEN /\ heap' = [heap EXCEPT !.acquired = @ + 1]
              /\ pc' = "call"
              /\ result' = result
         ELSE /\ heap' = heap
              /\ pc' = "done"
              /\ result' = [null |-> TRUE, error |-> "BufferError"]
  /\ UNCHANGED <<which, text, offset, count, cuts, it, args, frame>>

\* if (!our_context.the_list) goto finally;
TokenizeNoList ==
  /\ pc = "call"
  /\ frame' = GotoFinally([frame EXCEPT !.no_list = TRUE], "MemoryError")
  /\ pc' = "finally"
  /\ UNCHANGED <<which, text, offset, count, cuts, it, args, result, heap>>

\* the checks of the buffer length, of argc and of each arg
TokenizeRejects ==
  /\ pc = "call"
  /\ ~ArgsAccepted(args)
  /\ frame' = GotoFinally(frame,
                 IF TooLarge(args) \/ TooManyArgs(args)
                   THEN "ValueError" ELSE "UnicodeEncodeError")
  /\ pc' = "finally"
  /\ UNCHANGED <<which, text, offset, count, cuts, it, args, result, heap>>

\* SET_EXC(rc, NULL) after xCreate or xTokenize returned rc: an exception
\* already set is kept
SET_EXC(ctx, rc) ==
  [ctx EXCEPT !.rc = rc,
              !.error = IF ctx.error = "none" THEN "SQLError" ELSE ctx.error]

\* xCreate returned SQLITE_OK: *ppOut = (Fts5Tokenizer *)pyres;
xCreate_NoInstance(h) == [h EXCEPT !.created = @ + 1]

xCreate(h) == [h EXCEPT !.their_context = <<"pyres">>, !.created = @ + 1]

\* rc = xCreate(...), SQLITE_OK or not; their_context is set when it is
\* SQLITE_OK
TokenizeCreate ==
  /\ pc = "call"
  /\ ArgsAccepted(args)
  /\ \E rc \in {"SQLITE_OK", "SQLITE_ERROR"} :
       IF rc = "SQLITE_OK"
         THEN pc' = "xTokenize" /\ frame' = frame /\ heap' = xCreate(heap)
         ELSE pc' = "finally" /\ frame' = SET_EXC(frame, rc) /\ heap' = heap
  /\ UNCHANGED <<which, text, offset, count, cuts, it, args, result>>

\* xTokenize fails by itself
TokenizeFails ==
  /\ pc = "xTokenize"
  /\ frame' = SET_EXC(frame, "SQLITE_ERROR")
  /\ pc' = "finally"
  /\ UNCHANGED <<which, text, offset, count, cuts, it, args, result, heap>>

\* the tokenizer delivers its next token to the callback
TokenizeToken ==
  /\ pc = "xTokenize"
  /\ frame.delivered < Len(args.tokens)
  /\ \E mem \in BOOLEAN :
       frame' = [xTokenizer_Callback(frame, args, args.tokens[frame.delivered + 1],
                                     frame.delivered + 1, mem)
                   EXCEPT !.delivered = @ + 1]
  /\ pc' = IF frame'.rc = "SQLITE_OK" THEN "xTokenize" ELSE "finally"
  /\ UNCHANGED <<which, text, offset, count, cuts, it, args, result, heap>>

\* xTokenize returns SQLITE_OK after its last token
TokenizeEnd ==
  /\ pc = "xTokenize"
  /\ frame.delivered = Len(args.tokens)
  /\ pc' = "finally"
  /\ UNCHANGED <<which, text, offset, count, cuts, it, args, frame, result, heap>>

\* if (their_context) self->tokenizer.xDelete(their_context);
\* PyBuffer_Release(&utf8_buffer);
ReleaseResources_DeleteAlways(h) ==
  [h EXCEPT !.deleted = @ + 1, !.released = @ + 1]

ReleaseResources(h) ==
  [h EXCEPT !.deleted = IF h.their_context # <<>> THEN @ + 1 ELSE @,
            !.released = @ + 1]

\* finally: the tokenizer instance is deleted and the buffer released; the
\* last item joins the list; the list is cleared when rc is not SQLITE_OK;
\* mem tells whether PyList_Append succeeds
TokenizeFinally ==
  /\ pc = "finally"
  /\ \E mem \in BOOLEAN :
       result' =
         IF frame.rc = "SQLITE_OK" /\ frame.last_item # <<>> /\ ~mem
           THEN [null |-> TRUE, error |-> "MemoryError"]
         ELSE IF frame.rc # "SQLITE_OK" \/ frame.no_list
           THEN [null |-> TRUE, error |-> frame.error]
         ELSE [null |-> FALSE, value |-> FlushLast(frame).the_list,
               error |-> frame.error]
  /\ heap' = ReleaseResources(heap)
  /\ pc' = "done"
  /\ UNCHANGED <<which, text, offset, count, cuts, it, args, frame>>

TokenizeNext ==
  \/ TokenizeGetBuffer
  \/ TokenizeNoList
  \/ TokenizeRejects
  \/ TokenizeCreate
  \/ TokenizeFails
  \/ TokenizeToken
  \/ TokenizeEnd
  \/ TokenizeFinally

SpecTokenize == TokenizeInit /\ [][TokenizeNext]_vars

\* the call returned a list
Tokenized == pc = "done" /\ ~result.null

\* C20: with include_colocated False no token delivered with
\* FTS5_TOKEN_COLOCATED is in the list returned, with or without offsets,
\* wherever the token came in the sequence.
C20_NoColocated ==
  (Tokenized /\ ~args.include_colocated) =>
    \A k \in 1..Len(result.value) :
      \A j \in 1..Len(result.value[k].tokens) :
        args.tokens[result.value[k].tokens[j]].flags # FTS5_TOKEN_COLOCATED

\* "first place" with "1st" colocated with "first", include_offsets True
\* and include_colocated False: the list the documentation shows
C20_FirstPlace ==
  (/\ Tokenized
   /\ args.include_offsets
   /\ ~args.include_colocated
   /\ args.tokens = <<[flags |-> {}, start |-> 0, end |-> 5],
                      [flags |-> FTS5_TOKEN_COLOCATED, start |-> 0, end |-> 5],
                      [flags |-> {}, start |-> 6, end |-> FirstPlaceLen]>>) =>
    result.value = <<[tuple |-> TRUE, offsets |-> <<0, 5>>, tokens |-> <<1>>],
                     [tuple |-> TRUE, offsets |-> <<6, FirstPlaceLen>>, tokens |-> <<3>>]>>

\* the flags are 0 or FTS5_TOKEN_COLOCATED and the offsets are a range
\* inside the buffer
ValidDelivery(a, tok) ==
  /\ tok.flags \in {{}, FTS5_TOKEN_COLOCATED}
  /\ 0 <= tok.start /\ tok.start <= tok.end /\ tok.end <= a.buffer_len

\* the call ended for a reason that is not in the tokens: utf8 gave no
\* buffer, or an allocation or the tokenizer itself failed
OutsideFailure == result.error \in {"BufferError", "MemoryError", "SQLError"}

\* C21: with include_offsets False and include_colocated True, when the
\* tokenizer delivers valid tokens that start with a primary token, the
\* call does not fail, every token is returned in delivery order, a
\* colocated token is in the tuple of the primary token before it, and a
\* primary token without colocated tokens is a plain string.
C21_GroupedWithoutOffsets ==
  (/\ pc = "done"
   /\ ~args.include_offsets
   /\ args.include_colocated
   /\ Len(args.tokens) > 0
   /\ args.tokens[1].flags = {}
   /\ \A i \in 1..Len(args.tokens) : ValidDelivery(args, args.tokens[i])
   /\ ~OutsideFailure) =>
    /\ ~result.null
    /\ \A i \in 1..Len(args.tokens) :
         \E k \in 1..Len(result.value) :
           \E j \in 1..Len(result.value[k].tokens) : result.value[k].tokens[j] = i
    /\ \A k \in 1..Len(result.value) :
         LET item == result.value[k] IN
           /\ item.tuple = (Len(item.tokens) > 1)
           /\ args.tokens[item.tokens[1]].flags = {}
           /\ \A j \in 2..Len(item.tokens) :
                /\ item.tokens[j] = item.tokens[j - 1] + 1
                /\ args.tokens[item.tokens[j]].flags = FTS5_TOKEN_COLOCATED

\* C22: with include_offsets True every (start, end) in the list returned
\* has 0 <= start <= end <= len(utf8), and a call whose callback was given
\* offsets outside this relation returns no list.
C22_OffsetsInside ==
  /\ (Tokenized /\ args.include_offsets) =>
       \A k \in 1..Len(result.value) :
         LET o == result.value[k].offsets IN
           0 <= o[1] /\ o[1] <= o[2] /\ o[2] <= args.utf8_len
  /\ pc = "done" =>
       \A i \in 1..frame.delivered :
         LET tok == args.tokens[i] IN
           ~(0 <= tok.start /\ tok.start <= tok.end /\ tok.end <= args.utf8_len)
             => result.null

\* C23: when the call ends with an exception set it returns no list.
C23_NoListWithError ==
  pc = "done" => (result.error # "none" => result.null)

\* the errors of xCreate, xTokenize and the callback: rc is not SQLITE_OK
\* and no list is returned
ListClearedOnErrorCode ==
  (pc = "done" /\ frame.rc # "SQLITE_OK") => result.null /\ result.error # "none"

(***************************************************************************)
(* Word, sentence and grapheme rules after a look-ahead.                   *)
(***************************************************************************)
\* C24: word_next_break of [ALetter, ZWJ, Extended_Pictographic, ALetter]
\* at 0 returns 3: after the look-ahead form of WB3c joined the pictograph
\* the rules still apply between it and the letter after it.
C24_BreakAfterJoinedPictograph ==
  (/\ Returned
   /\ which = "word"
   /\ Arg = 0
   /\ text = <<"ALetter", "ZWJ", "Extended_Pictographic", "ALetter">>) =>
    Ret = 3

\* the segment of the last call is one character, or the pair CR LF
NewlineSegment ==
  \/ Ret - Arg = 1
  \/ Ret - Arg = 2 /\ text[Arg + 1] = "CR" /\ text[Arg + 2] = "LF"

\* C25: for every text and offset, the segment [offset, next) returned by
\* word_next_break holds a Newline, CR or LF only when it is that single
\* character or exactly the pair CR LF.
C25_NewlineAlone ==
  (Returned /\ which = "word") =>
    ((\E k \in (Arg + 1)..Ret : text[k] \in {"Newline", "CR", "LF"})
       => NewlineSegment)

\* a character WB4 ignores
WordTransparent == {"Extend", "Format", "ZWJ"}

\* Hebrew_Letter Double_Quote T* Hebrew_Letter
IsHebrewQuote(t) ==
  /\ Len(t) >= 3
  /\ t[1] = "Hebrew_Letter"
  /\ t[2] = "Double_Quote"
  /\ t[Len(t)] = "Hebrew_Letter"
  /\ \A k \in 3..(Len(t) - 1) : t[k] \in WordTransparent

\* C26: for Hebrew_Letter Double_Quote T* Hebrew_Letter, T* zero or more
\* Extend, Format or ZWJ, word_next_break at 0 returns the length of the
\* text.
C26_HebrewDoubleQuote ==
  (Returned /\ which = "word" /\ Arg = 0 /\ IsHebrewQuote(text)) =>
    Ret = Len(text)

\* without transparent characters WB7b/c join the three characters
HebrewQuoteAdjacent ==
  (Returned /\ which = "word" /\ Arg = 0 /\ IsHebrewQuote(text) /\ Len(text) = 3) =>
    Ret = 3

(***************************************************************************)
(* A caller of sentence_next_break on texts of terminators, closers,       *)
(* spaces, separators, ignored characters and letters.                     *)
(***************************************************************************)
MaxSentenceLen == 4

SentenceAlphabet ==
  {"Sep", "ATerm", "STerm", "Close", "Sp", "Extend", "Lower"}

SentenceInit ==
  /\ which = "sentence"
  /\ text \in TextsOver(SentenceAlphabet, MaxSentenceLen)
  /\ offset \in 0..Len(text)
  /\ count = 0
  /\ cuts = <<offset>>
  /\ pc = "idle"
  /\ it = NoIterator
  /\ NoCall

SentenceNext ==
  \/ Call
  \/ SentencePass
  \/ LoopExit
  \/ Return

SpecSentence == SentenceInit /\ [][SentenceNext]_vars

\* the index of the last of the first k characters of t that is not in S,
\* 0 when all of them are
RECURSIVE SkipBack(_, _, _)
SkipBack(t, k, S) ==
  IF k > 0 /\ t[k] \in S THEN SkipBack(t, k - 1, S) ELSE k

\* the first b characters of t end with a ParaSep
AfterParaSep(t, b) == b > 0 /\ t[b] \in {"Sep", "CR", "LF"}

\* the index of the SATerm that the first b characters of t end with,
\* when they end with SATerm Close* Sp* and Format or Extend characters
\* after any of them; 0 otherwise
TerminatorBefore(t, b) ==
  LET k == SkipBack(t, SkipBack(t, b, {"Sp", "Format", "Extend"}),
                    {"Close", "Format", "Extend"})
  IN IF k > 0 /\ t[k] \in {"STerm", "ATerm"} THEN k ELSE 0

\* C27: a boundary b < len(text) returned by sentence_next_break comes
\* right after a ParaSep, or after an SATerm followed by zero or more Close
\* and then zero or more Sp, with Format or Extend characters after any of
\* them; after any other character no boundary is returned.
C27_BreakOnlyAfterTerminator ==
  (Returned /\ which = "sentence" /\ Ret < Len(text)) =>
    \/ AfterParaSep(text, Ret)
    \/ TerminatorBefore(text, Ret) > 0

\* a boundary inside the text after a terminator and a Close or an Sp, with
\* an ignored character among them
C27_Witness ==
  /\ Returned
  /\ which = "sentence"
  /\ Ret < Len(text)
  /\ ~AfterParaSep(text, Ret)
  /\ TerminatorBefore(text, Ret) > 0
  /\ Ret - TerminatorBefore(text, Ret) >= 2
  /\ \E k \in TerminatorBefore(text, Ret)..Ret : text[k] = "Extend"

\* a boundary inside the text right after a Sep
C27_WitnessParaSep ==
  /\ Returned
  /\ which = "sentence"
  /\ Ret < Len(text)
  /\ text[Ret] = "Sep"
  /\ Arg < Ret - 1

\* C28: sentence_next_break of [Lower, STerm, STerm, Sp, Upper] at 0
\* returns 4: after SB8a joined the two terminators SB9-SB11 still break
\* after the Sp that follows the second one.
C28_BreakAfterSecondTerminator ==
  (Returned /\ which = "sentence" /\ Arg = 0 /\ text = TwoTerminators) =>
    Ret = 4

\* C29: sentence_next_break of [ATerm, X, Lower] at 0, X a character with
\* no sentence category, returns 3: SB8 skips X and finds the Lower.
C29_SkipsUncategorised ==
  (/\ Returned
   /\ which = "sentence"
   /\ Arg = 0
   /\ text = <<"ATerm", "Unassigned", "Lower">>) =>
    Ret = 3

\* SB8 skips a character that has a category outside OLetter, Upper, Lower,
\* ParaSep and SATerm
SkipsCategorised ==
  (/\ Returned
   /\ which = "sentence"
   /\ Arg = 0
   /\ Len(text) = 3
   /\ text[1] = "ATerm"
   /\ text[2] \in SB8_Skipped
   /\ text[3] = "Lower") =>
    Ret = 3

\* InCB_Consonant, then one or more InCB_Extend or InCB_Linker, then
\* InCB_Consonant
IsConjunct(t) ==
  /\ Len(t) >= 3
  /\ t[1] = "InCB_Consonant"
  /\ t[Len(t)] = "InCB_Consonant"
  /\ \A k \in 2..(Len(t) - 1) : t[k] \in {"InCB_Extend", "InCB_Linker"}

HasLinker(t) == \E k \in 2..(Len(t) - 1) : t[k] = "InCB_Linker"

\* C30: for [InCB_Consonant, e1..en, InCB_Consonant], n >= 1 and every ei
\* InCB_Extend or InCB_Linker, grapheme_next_break at 0 returns n+2 when
\* some ei is an InCB_Linker and n+1 when none is.
C30_ConjunctNeedsLinker ==
  (Returned /\ which = "grapheme" /\ Arg = 0 /\ IsConjunct(text)) =>
    Ret = IF HasLinker(text) THEN Len(text) ELSE Len(text) - 1

\* a conjunct whose linker is neither the first nor the last of the
\* characters between the consonants
C30_Witness ==
  /\ Returned
  /\ which = "grapheme"
  /\ Arg = 0
  /\ IsConjunct(text)
  /\ Len(text) = 5
  /\ text[3] = "InCB_Linker"
  /\ text[2] = "InCB_Extend"
  /\ text[4] = "InCB_Extend"
  /\ Ret = 5

\* consonants with only InCB_Extend between them: the boundary is before
\* the second consonant
C30_WitnessNoLinker ==
  /\ Returned
  /\ which = "grapheme"
  /\ Arg = 0
  /\ IsConjunct(text)
  /\ ~HasLinker(text)
  /\ Len(text) = 4
  /\ Ret = 3

(***************************************************************************)
(* The TextIterator inside a call: the caller of Spec on the texts over    *)
(* the focus alphabets, the literals, and a text that takes the goto of    *)
(* WB4.  A state with control at the loop test (and the test true) or at   *)
(* loop_top is the top of a pass: the pass starts with it_advance and then *)
(* evaluates the rules in order.                                           *)
(***************************************************************************)
IteratorTexts(w) ==
  TextsOver(FocusAlphabet(w), MaxFocusLen) \cup Literals(w)
    \cup (IF w = "word"
            THEN {<<"ALetter", "Extend", "ZWJ", "Extended_Pictographic">>}
            ELSE {})

IteratorInit ==
  /\ which \in Engines
  /\ text \in IteratorTexts(which)
  /\ offset \in 0..Len(text)
  /\ count = 0
  /\ cuts = <<offset>>
  /\ pc = "idle"
  /\ it = NoIterator
  /\ NoCall

SpecIterator == IteratorInit /\ [][Next]_vars

TopOfPass == (pc = "while" /\ LoopTest(text, it)) \/ pc = "loop_top"

\* the iterator after the it_advance at the top of the pass
Entered == it_advance(which, text, it)

\* the rules evaluated in a pass from the n-th on: the iterator before and
\* after each of them, and where control goes
RECURSIVE RuleSteps(_, _, _, _, _)
RuleSteps(w, n, txt, off, i) ==
  LET r == Rule(w, Rules(w)[n], txt, off, i)
  IN IF r.ctl = "next" /\ n < Len(Rules(w))
     THEN <<[before |-> i, after |-> r.it, ctl |-> "next"]>>
            \o RuleSteps(w, n + 1, txt, off, r.it)
     ELSE <<[before |-> i, after |-> r.it, ctl |-> r.ctl]>>

SameFields(a, b) ==
  /\ a.pos = b.pos
  /\ a.curchar = b.curchar
  /\ a.lookahead = b.lookahead

\* C31 as stated: when a rule tests it, it_has_accepted is true iff at
\* least one it_advance has been executed since TEXT_INIT.
C31_AcceptedIffAdvanced ==
  TopOfPass =>
    (it_has_accepted(Entered, offset) <=> Entered.advances >= 1)

\* C31 amended: when a rule tests it (after the it_advance at the top of a
\* pass), it_has_accepted is true iff at least two it_advance have been
\* executed since TEXT_INIT, that is iff a character before curchar has
\* been accepted; after the first advance alone it is false.
C31_AcceptedIffAdvancedTwice ==
  TopOfPass =>
    (it_has_accepted(Entered, offset) <=> Entered.advances >= 2)

\* GB4 tests it_has_accepted with a character accepted before the Control
C31_Witness ==
  /\ TopOfPass
  /\ which = "grapheme"
  /\ Has(Entered.curchar, {"Control", "CR", "LF"})
  /\ it_has_accepted(Entered, offset)

\* GB4 tests it_has_accepted in the first pass of a call
C31_WitnessFirstPass ==
  /\ TopOfPass
  /\ which = "grapheme"
  /\ Has(Entered.curchar, {"Control", "CR", "LF"})
  /\ Entered.advances = 1

\* C32: in the three engines, when a rule opened a transaction with
\* it_begin and falls through to the next rule, pos, curchar and lookahead
\* are the values they had before the rule, and no transaction is open;
\* it_commit changes none of the three fields.
C32_RollbackRestores ==
  TopOfPass =>
    /\ \E steps \in {RuleSteps(which, 1, text, offset, Entered)} :
         \A k \in 1..Len(steps) :
           (steps[k].after.begins > steps[k].before.begins /\ steps[k].ctl = "next") =>
             SameFields(steps[k].after, steps[k].before) /\ ~steps[k].after.in_transaction
    /\ SameFields(it_commit(it_begin(Entered)), Entered)

\* a rule of engine w rolled back a lookahead that had advanced at least
\* twice
RolledBack(w) ==
  /\ TopOfPass
  /\ which = w
  /\ \E k \in 1..Len(RuleSteps(which, 1, text, offset, Entered)) :
       \E s \in {RuleSteps(which, 1, text, offset, Entered)[k]} :
         /\ s.after.begins > s.before.begins
         /\ s.ctl = "next"
         /\ s.after.advances >= s.before.advances + 2

C32_Witness == RolledBack("sentence")

C32_WitnessGrapheme == RolledBack("grapheme")

C32_WitnessWord == RolledBack("word")

\* C33: in every execution of the three engines no assertion on
\* in_transaction fails (it_begin never runs inside a transaction,
\* it_commit and it_rollback only inside one), every it_begin has had its
\* one it_commit or it_rollback when the pass ends, and no transaction is
\* open when the function returns.
C33_SingleLevelTransactions ==
  /\ ~it.assert_transaction
  /\ ~it.in_transaction
  /\ it.begins = it.ends

\* a call that returns after two transactions
C33_Witness ==
  /\ pc = "return"
  /\ it.begins >= 2

\* C34: in the three engines, for every text and offset, it_advance runs
\* only with pos < text_end: its assertion never fails, in the loop, inside
\* the lookaheads, inside it_absorb and after the goto loop_top of WB4.
C34_AdvanceInsideText ==
  ~it.assert_advance

\* a lookahead advanced to the end of the text and was rolled back
C34_Witness ==
  /\ TopOfPass
  /\ \E k \in 1..Len(RuleSteps(which, 1, text, offset, Entered)) :
       \E s \in {RuleSteps(which, 1, text, offset, Entered)[k]} :
         /\ s.after.begins > s.before.begins
         /\ s.ctl = "next"
         /\ s.after.advances - s.before.advances >= Len(text) - s.before.pos
         /\ s.after.advances > s.before.advances

\* the pass after the goto loop_top of WB4 advanced onto the last character
C34_WitnessLoopTop ==
  /\ pc = "loop_top"
  /\ Entered.pos = Len(text)

\* start and stop after ARG_ifnone are not negative
ForwardOnly == frame.start >= 0 /\ frame.stop >= 0

\* the number of grapheme clusters of t
ClusterCount(t) == Cardinality(Boundaries("grapheme", t)) - 1

Min(a, b) == IF a < b THEN a ELSE b

\* C35: with start >= 0 and stop >= 0 grapheme_substr builds no list of
\* offsets and makes at most min(stop, number of clusters) calls of
\* grapheme_next_break; once the loop is over it has made exactly that
\* many: it stops at the stop-th boundary.
C35_SingleForwardPass ==
  ForwardOnly =>
    /\ ~frame.offsets
    /\ heap = NoObjects
    /\ frame.calls <= Min(frame.stop, ClusterCount(text))
    /\ (pc \in {"after", "done", "abort"} /\ SubstrLoops(text, args)) =>
         frame.calls = Min(frame.stop, ClusterCount(text))

\* the loop stopped at the stop-th boundary, before the last cluster
C35_Witness ==
  /\ ForwardOnly
  /\ pc = "after"
  /\ frame.calls = frame.stop
  /\ frame.stop >= 2
  /\ frame.stop < ClusterCount(text)
  /\ frame.text_offset < Len(text)

\* stop is after the last cluster: one call for each cluster
C35_WitnessWholeText ==
  /\ ForwardOnly
  /\ pc = "after"
  /\ frame.stop > ClusterCount(text)
  /\ frame.calls = ClusterCount(text)
  /\ ClusterCount(text) >= 2

\* C36: whenever grapheme_substr reaches its forward-only return (no
\* offsets list, the early test did not fire), stop_offset > start_offset:
\* the assertion before PyUnicode_Substring does not fail, for every text
\* and every start and stop.
C36_AssertionHolds ==
  (pc = "after" /\ ~frame.offsets) => SubstrAssert(frame)

\* the assertion holds whenever start is before the number of clusters
AssertionHoldsInsideText ==
  (pc = "after" /\ ~frame.offsets /\ frame.start < ClusterCount(text)) =>
    SubstrAssert(frame)

(***************************************************************************)
(* Connection_tokenizer_refresh.  frame holds the connection (its          *)
(* tokenizer_serial and the tokenizer registered under the name of the     *)
(* wrapper, as xFindTokenizer reports it) and self, the APSWFTS5Tokenizer. *)
(* The registration of tokenizers is outside fts.c: each one changes the   *)
(* serial of the connection, which is never 0, the value a wrapper has     *)
(* before its first resolution.  result describes the last call of the     *)
(* wrapper: what refresh returned, the tokenizer the call went on to       *)
(* invoke, and self, the lookup and the serial as the call found them.     *)
(***************************************************************************)
MaxSerial == 4

\* memset(&tokenizer, 0, sizeof(tokenizer)); void *userdata = NULL;
NotFound == [found |-> FALSE, tokenizer |-> "zero", userdata |-> "NULL"]

Lookups ==
  {NotFound}
    \cup {[found |-> TRUE, tokenizer |-> t, userdata |-> u] :
            t \in {"T1", "T2"}, u \in {"U1", "U2"}}

Unresolved == [tokenizer |-> "zero", userdata |-> "NULL", tokenizer_serial |-> 0]

NoRefreshCall ==
  [called |-> FALSE, rc |-> 0, error |-> "none", invoked |-> <<>>,
   before |-> Unresolved, lookup |-> NotFound, db_serial |-> 0]

RefreshInit ==
  /\ frame = [db_serial |-> 1, registry |-> NotFound, self |-> Unresolved]
  /\ result = NoRefreshCall
  /\ pc = "idle"
  /\ args = <<>>
  /\ heap = <<>>
  /\ text = <<>>
  /\ which = "refresh"
  /\ offset = 0
  /\ count = 0
  /\ cuts = <<>>
  /\ it = NoIterator

\* res == SQLITE_OK && 0 == memcmp(&self->tokenizer, &tokenizer, ...) &&
\* self->userdata == userdata
LookupMatches_AnyUserdata(self, lookup) ==
  /\ lookup.found
  /\ self.tokenizer = lookup.tokenizer

LookupMatches(self, lookup) ==
  /\ lookup.found
  /\ self.tokenizer = lookup.tokenizer
  /\ self.userdata = lookup.userdata

\* Connection_tokenizer_refresh(self) on an open connection whose serial is
\* db_serial, where Connection_fts5_api gives an api or not and
\* xFindTokenizer gives lookup: self after it, what it returns and the
\* exception it sets
Connection_tokenizer_refresh(self, db_serial, api, lookup) ==
  IF self.tokenizer_serial = db_serial
    THEN [self |-> self, rc |-> 0, error |-> "none"]
  ELSE IF ~api
    THEN [self |-> self, rc |-> 0 - 1, error |-> "fts5_api"]
  ELSE IF LookupMatches(self, lookup)
    THEN [self |-> [self EXCEPT !.tokenizer_serial = db_serial],
          rc |-> 0, error |-> "none"]
  ELSE IF self.tokenizer_serial = 0
    THEN IF ~lookup.found
           THEN [self |-> self, rc |-> 0 - 1, error |-> "ValueError"]
           ELSE [self |-> [tokenizer |-> lookup.tokenizer,
                           userdata |-> lookup.userdata,
                           tokenizer_serial |-> db_serial],
                 rc |-> 0, error |-> "none"]
  ELSE [self |-> self, rc |-> 0 - 1, error |-> "InvalidContext"]

\* a tokenizer is registered under the name, or the name is dropped: the
\* serial of the connection changes
RegisterTokenizer ==
  /\ pc = "idle"
  /\ frame.db_serial < MaxSerial
  /\ \E l \in Lookups :
       frame' = [frame EXCEPT !.registry = l, !.db_serial = @ + 1]
  /\ UNCHANGED <<which, text, offset, count, cuts, it, pc, args, result, heap>>

\* APSWFTS5Tokenizer_call: the refresh, and when it returns 0 the call goes
\* on to xCreate and xTokenize of self->tokenizer with self->userdata
TokenizerCall ==
  /\ pc = "idle"
  /\ \E api \in BOOLEAN :
     \E r \in {Connection_tokenizer_refresh(frame.self, frame.db_serial, api,
                                            frame.registry)} :
       /\ frame' = [frame EXCEPT !.self = r.self]
       /\ result' = [called |-> TRUE, rc |-> r.rc, error |-> r.error,
                     invoked |-> IF r.rc = 0
                                   THEN <<[tokenizer |-> r.self.tokenizer,
                                           userdata |-> r.self.userdata]>>
                                   ELSE <<>>,
                     before |-> frame.self, lookup |-> frame.registry,
                     db_serial |-> frame.db_serial]
  /\ UNCHANGED <<which, text, offset, count, cuts, it, pc, args, heap>>

RefreshNext ==
  \/ RegisterTokenizer
  \/ TokenizerCall

SpecRefresh == RefreshInit /\ [][RefreshNext]_vars

\* the last call found a serial that differs from the wrapper's and a
\* lookup that is missing or differs from what an earlier resolution cached
StaleLookup ==
  /\ result.called
  /\ result.before.tokenizer_serial # result.db_serial
  /\ result.before.tokenizer_serial # 0
  /\ ~LookupMatches(result.before, result.lookup)

\* C38: a call of the wrapper invokes xCreate and xTokenize only of the
\* tokenizer and userdata registered under its name at that time; when the
\* serial of the connection differs from the wrapper's and the lookup is
\* missing or differs from what an earlier resolution cached, the refresh
\* fails, tokenizer, userdata and serial of the wrapper stay unchanged and
\* nothing is invoked; the serial of the wrapper changes only when the
\* lookup matches what is cached or on the first resolution.
C38_NoStaleTokenizer ==
  result.called =>
    /\ result.invoked # <<>> =>
         /\ result.lookup.found
         /\ result.invoked[1].tokenizer = result.lookup.tokenizer
         /\ result.invoked[1].userdata = result.lookup.userdata
    /\ StaleLookup =>
         /\ result.rc # 0
         /\ result.error # "none"
         /\ frame.self = result.before
         /\ result.invoked = <<>>
    /\ frame.self.tokenizer_serial # result.before.tokenizer_serial =>
         /\ frame.self.tokenizer_serial = result.db_serial
         /\ \/ LookupMatches(result.before, result.lookup)
            \/ result.before.tokenizer_serial = 0 /\ result.lookup.found

\* the tokenizer was replaced after the wrapper resolved it: same function
\* pointers, other userdata
C38_Witness ==
  /\ StaleLookup
  /\ result.lookup.found
  /\ result.lookup.tokenizer = result.before.tokenizer
  /\ result.lookup.userdata # result.before.userdata

\* the name was dropped after the wrapper resolved it
C38_WitnessDeleted == StaleLookup /\ ~result.lookup.found

\* the same tokenizer was registered again: the wrapper takes the new serial
C38_WitnessSame ==
  /\ result.called
  /\ result.before.tokenizer_serial # 0
  /\ result.before.tokenizer_serial # result.db_serial
  /\ frame.self.tokenizer_serial = result.db_serial
  /\ result.invoked # <<>>

\* the call of the wrapper is over
CallOver == which = "tokenizer" /\ pc = "done"

\* C37: xDelete is called exactly once for the tokenizer instance of an
\* xCreate that returned SQLITE_OK, whatever happens after it, and not at
\* all when xCreate failed or was not reached; the buffer of utf8 is
\* released exactly once on every path after it was acquired, and never
\* before the call is over.
C37_ResourcesReleasedOnce ==
  which = "tokenizer" =>
    /\ heap.created <= 1
    /\ heap.acquired <= 1
    /\ IF CallOver
         THEN heap.deleted = heap.created /\ heap.released = heap.acquired
         ELSE heap.deleted = 0 /\ heap.released = 0

\* xTokenize failed after xCreate had made an instance
C37_Witness ==
  /\ CallOver
  /\ heap.created = 1
  /\ heap.deleted = 1
  /\ heap.released = 1
  /\ frame.rc # "SQLITE_OK"

\* xCreate failed
C37_WitnessCreateFailed ==
  /\ CallOver
  /\ ArgsAccepted(args)
  /\ heap.acquired = 1
  /\ heap.created = 0
  /\ heap.deleted = 0
  /\ heap.released = 1
  /\ frame.rc # "SQLITE_OK"

\* xCreate was not reached
C37_WitnessNotReached ==
  /\ CallOver
  /\ ~ArgsAccepted(args)
  /\ heap.released = 1
  /\ heap.deleted = 0

\* the buffer was not acquired
C37_WitnessNoBuffer == CallOver /\ heap.acquired = 0 /\ heap.released = 0

\* the call returned a list after xCreate had made an instance
C37_WitnessSuccess ==
  /\ CallOver
  /\ ~result.null
  /\ heap.created = 1
  /\ heap.deleted = 1

(***************************************************************************)
(* APSWPythonTokenizerTokenize.  args.items is what the iterator of the    *)
(* Python tokenizer yields: plain strings, tuples of strings with or       *)
(* without two leading integers, and objects that are neither.  frame      *)
(* holds the number of items taken, the strings of the current tuple       *)
(* passed on, rc, the exception set, and the calls of xToken made so far   *)
(* with the flags given and the value returned.                            *)
(***************************************************************************)
MaxItems == 3

MaxStrings == 2

YieldedItems ==
  {[kind |-> "str", offsets |-> FALSE, strings |-> 1],
   [kind |-> "other", offsets |-> FALSE, strings |-> 0]}
    \cup {[kind |-> "tuple", offsets |-> o, strings |-> n] :
            o \in BOOLEAN, n \in 1..MaxStrings}

PyTokenizeInit ==
  /\ \E n \in 0..MaxItems : \E items \in [1..n -> YieldedItems] :
       args = [items |-> items]
  /\ frame = [item |-> 0, string |-> 0, rc |-> "SQLITE_OK", error |-> "none",
              calls |-> <<>>]
  /\ pc = "iter"
  /\ result = <<>>
  /\ heap = <<>>
  /\ text = <<>>
  /\ which = "xTokenize"
  /\ offset = 0
  /\ count = 0
  /\ cuts = <<>>
  /\ it = NoIterator

\* while ((item = PyIter_Next(iterator))) gives one more item
NextItem(kind) ==
  /\ pc = "iter"
  /\ frame.item < Len(args.items)
  /\ args.items[frame.item + 1].kind = kind

\* rc = xToken(their_context, tflags, ...) returned rc
xTokenCalled(f, tflags, rc) ==
  [f EXCEPT !.rc = rc,
            !.calls = Append(@, [flags |-> tflags, item |-> f.item,
                                 string |-> f.string, rc |-> rc])]

\* single string: rc = xToken(their_context, 0, addr, size, 0, 0);
\* if (rc != SQLITE_OK) goto finally; continue;
PlainString ==
  /\ NextItem("str")
  /\ \E rc \in {"SQLITE_OK", "SQLITE_ERROR"} :
       /\ frame' = xTokenCalled([frame EXCEPT !.item = @ + 1, !.string = 1], {}, rc)
       /\ pc' = IF rc # "SQLITE_OK" THEN "finally" ELSE "iter"
  /\ UNCHANGED <<which, text, offset, count, cuts, it, args, result, heap>>

\* if (!PyTuple_Check(item)) { PyErr_Format(PyExc_ValueError, ...); goto finally; }
NotStrOrTuple ==
  /\ NextItem("other")
  /\ frame' = [frame EXCEPT !.item = @ + 1, !.error = "ValueError"]
  /\ pc' = "finally"
  /\ UNCHANGED <<which, text, offset, count, cuts, it, args, result, heap>>

\* a tuple: its offsets are read, int first = 1
TupleItem ==
  /\ NextItem("tuple")
  /\ frame' = [frame EXCEPT !.item = @ + 1, !.string = 0]
  /\ pc' = "tuple"
  /\ UNCHANGED <<which, text, offset, count, cuts, it, args, result, heap>>

\* the flags of the next string of the tuple: first ? 0 : FTS5_TOKEN_COLOCATED
TupleFlags(f) == IF f.string = 0 THEN {} ELSE FTS5_TOKEN_COLOCATED

\* for (; string_offset < tuple_len; string_offset++, first = 0)
\*   rc = xToken(their_context, first ? 0 : FTS5_TOKEN_COLOCATED, ...);
\* rc is not looked at
TupleString ==
  /\ pc = "tuple"
  /\ frame.string < args.items[frame.item].strings
  /\ \E rc \in {"SQLITE_OK", "SQLITE_ERROR"} :
       frame' = xTokenCalled([frame EXCEPT !.string = @ + 1], TupleFlags(frame), rc)
  /\ UNCHANGED <<which, text, offset, count, cuts, it, pc, args, result, heap>>

\* the strings of the tuple are done: back to the while
TupleDone ==
  /\ pc = "tuple"
  /\ frame.string = args.items[frame.item].strings
  /\ pc' = "iter"
  /\ UNCHANGED <<which, text, offset, count, cuts, it, args, frame, result, heap>>

\* PyIter_Next returns NULL: the iterator is exhausted
IteratorDone ==
  /\ pc = "iter"
  /\ frame.item = Len(args.items)
  /\ pc' = "finally"
  /\ UNCHANGED <<which, text, offset, count, cuts, it, args, frame, result, heap>>

\* finally: int res = PyErr_Occurred() ? SQLITE_ERROR : rc; return res;
PyTokenizeFinally ==
  /\ pc = "finally"
  /\ result' = [res |-> IF frame.error # "none" THEN "SQLITE_ERROR" ELSE frame.rc]
  /\ pc' = "done"
  /\ UNCHANGED <<which, text, offset, count, cuts, it, args, frame, heap>>

PyTokenizeNext ==
  \/ PlainString
  \/ NotStrOrTuple
  \/ TupleItem
  \/ TupleString
  \/ TupleDone
  \/ IteratorDone
  \/ PyTokenizeFinally

SpecPyTokenize == PyTokenizeInit /\ [][PyTokenizeNext]_vars

\* C39: once xToken returns a value other than SQLITE_OK, for a plain
\* string or for a string inside a tuple, no further call of xToken is made
\* and the function returns a value other than SQLITE_OK; the first string
\* of a tuple is passed with flags 0 and every later one with
\* FTS5_TOKEN_COLOCATED.
C39_StopsAtFirstFailure ==
  /\ \A k \in 1..Len(frame.calls) :
       /\ frame.calls[k].rc # "SQLITE_OK" =>
            /\ k = Len(frame.calls)
            /\ pc = "done" => result.res # "SQLITE_OK"
       /\ args.items[frame.calls[k].item].kind = "tuple" =>
            frame.calls[k].flags =
              (IF frame.calls[k].string = 1 THEN {} ELSE FTS5_TOKEN_COLOCATED)

\* the part on plain strings: after xToken fails for a plain string no
\* further call is made and the result is not SQLITE_OK
PlainStringStops ==
  \A k \in 1..Len(frame.calls) :
    (/\ args.items[frame.calls[k].item].kind = "str"
     /\ frame.calls[k].rc # "SQLITE_OK") =>
      /\ k = Len(frame.calls)
      /\ pc = "done" => result.res # "SQLITE_OK"

\* the part on flags: plain strings and the first string of a tuple go
\* with flags 0, every later string of a tuple with FTS5_TOKEN_COLOCATED
FlagsByPosition ==
  \A k \in 1..Len(frame.calls) :
    frame.calls[k].flags =
      (IF frame.calls[k].string = 1 THEN {} ELSE FTS5_TOKEN_COLOCATED)

\* xToken failed for the first string of a tuple, was called again for the
\* second, and the function returned SQLITE_OK
FailureInTupleLost ==
  /\ pc = "done"
  /\ Len(frame.calls) >= 2
  /\ frame.calls[1].rc # "SQLITE_OK"
  /\ frame.calls[1].item = frame.calls[2].item
  /\ result.res = "SQLITE_OK"

(***************************************************************************)
(* Argument parsing: ARG_PROLOG, ARG_MANDATORY and ARG_EPILOG as           *)
(* grapheme_next_break_api uses them.  args is the vectorcall: the number  *)
(* of positional arguments and the names of the keyword arguments, which   *)
(* Python keeps distinct.  frame holds useargs as the set of its slots     *)
(* that are not NULL, optind, actual_nargs, the variables bound so far     *)
(* and unknown_keyword.                                                    *)
(***************************************************************************)
MaxPositional == 3

MaxKeywords == 3

\* ARG_PROLOG(2, break_KWNAMES), #define break_KWNAMES "text", "offset"
maxpos == 2

kwlist == <<"text", "offset">>

maxargs == Len(kwlist)

KeywordNames == {"text", "offset", "other"}

KwnameTuples ==
  {k \in UNION {[1..n -> KeywordNames] : n \in 0..MaxKeywords} :
     \A i, j \in 1..Len(k) : i # j => k[i] # k[j]}

ArgparseInit ==
  /\ \E n \in 0..MaxPositional, k \in KwnameTuples :
       args = [nargs |-> n, kwnames |-> k]
  /\ frame = [useargs |-> {}, optind |-> 0, actual_nargs |-> 0, bound |-> {},
              unknown_keyword |-> "NULL"]
  /\ pc = "prolog"
  /\ result = [error |-> "none"]
  /\ heap = <<>>
  /\ text = <<>>
  /\ which = "argparse"
  /\ offset = 0
  /\ count = 0
  /\ cuts = <<>>
  /\ it = NoIterator

\* the index in kwlist of the keyword name, or -1
ARG_WHICH_KEYWORD(name) ==
  IF \E c \in 1..maxargs : kwlist[c] = name
    THEN (CHOOSE c \in 1..maxargs : kwlist[c] = name) - 1
    ELSE 0 - 1

RECURSIVE KeywordLoop(_, _, _)
\* the loop over fast_kwnames from its item i on, with the slots in use of
\* useargs: the label it leaves to, or "done" with the slots filled
KeywordLoop(kwnames, i, useargs) ==
  IF i > Len(kwnames) THEN [label |-> "done", useargs |-> useargs,
                            unknown_keyword |-> IF i = 1 THEN "NULL" ELSE kwnames[i - 1]]
  ELSE IF ARG_WHICH_KEYWORD(kwnames[i]) = 0 - 1
    THEN [label |-> "unknown_keyword_arg", useargs |-> useargs,
          unknown_keyword |-> kwnames[i]]
  ELSE IF ARG_WHICH_KEYWORD(kwnames[i]) \in useargs
    THEN [label |-> "pos_and_keyword", useargs |-> useargs,
          unknown_keyword |-> kwnames[i]]
  ELSE KeywordLoop(kwnames, i + 1, useargs \cup {ARG_WHICH_KEYWORD(kwnames[i])})

\* the exception of each label of ARG_EPILOG
LabelError(label) ==
  IF label \in {"too_many_args", "missing_required", "unknown_keyword_arg",
                "pos_and_keyword"}
    THEN "TypeError" ELSE "none"

\* goto label; ... error_return: return retval;
GotoLabel(label) ==
  /\ pc' = "error_return"
  /\ result' = [error |-> LabelError(label), label |-> label]

\* ARG_PROLOG: actual_nargs = PyVectorcall_NARGS(fast_nargs); with
\* fast_kwnames the positional arguments are copied to myargs and each
\* keyword argument is put in the slot of its name
ARG_PROLOG ==
  /\ pc = "prolog"
  /\ IF args.nargs > maxpos
       THEN /\ GotoLabel("too_many_args")
            /\ frame' = [frame EXCEPT !.actual_nargs = args.nargs]
       ELSE \E k \in {KeywordLoop(args.kwnames, 1, 0..(args.nargs - 1))} :
              /\ frame' = [frame EXCEPT !.actual_nargs = args.nargs,
                                        !.useargs = k.useargs,
                                        !.unknown_keyword = k.unknown_keyword]
              /\ IF k.label = "done"
                   THEN pc' = "param" /\ result' = result
                   ELSE GotoLabel(k.label)
  /\ UNCHANGED <<which, text, offset, count, cuts, it, args, heap>>

\* if ((size_t)optind >= actual_nargs || !useargs[optind]) goto missing_required;
MissingRequired(f) == f.optind >= f.actual_nargs \/ f.optind \notin f.useargs

\* ARG_MANDATORY ARG_PyUnicode(varname): the parameter at optind is bound
\* and optind moves on, or the object has not the type and the exception
\* of the conversion is set
ARG_MANDATORY ==
  /\ pc = "param"
  /\ frame.optind < maxargs
  /\ IF MissingRequired(frame)
       THEN GotoLabel("missing_required") /\ frame' = frame
       ELSE \E typed \in BOOLEAN :
              IF typed
                THEN /\ frame' = [frame EXCEPT !.bound = @ \cup {kwlist[frame.optind + 1]},
                                               !.optind = @ + 1]
                     /\ pc' = pc
                     /\ result' = result
                ELSE /\ frame' = frame
                     /\ pc' = "error_return"
                     /\ result' = [error |-> "TypeError", label |-> "param_error"]
  /\ UNCHANGED <<which, text, offset, count, cuts, it, args, heap>>

\* ARG_EPILOG: if ((size_t)optind == actual_nargs) goto success; assert(0);
\* goto missing_required;
ARG_EPILOG ==
  /\ pc = "param"
  /\ frame.optind = maxargs
  /\ IF frame.optind = frame.actual_nargs
       THEN pc' = "success" /\ result' = [error |-> "none", label |-> "success"]
       ELSE \/ pc' = "abort" /\ result' = [error |-> "none", label |-> "assert"]
            \/ GotoLabel("missing_required")
  /\ UNCHANGED <<which, text, offset, count, cuts, it, args, frame, heap>>

ArgparseNext ==
  \/ ARG_PROLOG
  \/ ARG_MANDATORY
  \/ ARG_EPILOG

SpecArgparse == ArgparseInit /\ [][ArgparseNext]_vars

\* how many times the call supplies the parameter at index p of kwlist
TimesSupplied(p) ==
  (IF p < args.nargs THEN 1 ELSE 0)
    + Cardinality({i \in 1..Len(args.kwnames) : args.kwnames[i] = kwlist[p + 1]})

UnknownKeyword == \E i \in 1..Len(args.kwnames) : ARG_WHICH_KEYWORD(args.kwnames[i]) = 0 - 1

\* each parameter is supplied exactly once, by position or by keyword, and
\* nothing else is passed
WellFormedCall ==
  /\ args.nargs <= maxpos
  /\ ~UnknownKeyword
  /\ \A p \in 0..(maxargs - 1) : TimesSupplied(p) = 1

ParseOver == which = "argparse" /\ pc \in {"success", "error_return", "abort"}

\* C40: the parse reaches success with every variable bound whenever each
\* mandatory parameter is supplied exactly once, by position or by keyword,
\* and its object has the type; it fails with a TypeError when a parameter
\* is missing, given by position and by keyword, named by an unknown
\* keyword, or when more than maxpos positional arguments are passed.
C40_ParsesPositionalAndKeyword ==
  ParseOver =>
    /\ (WellFormedCall /\ result.label # "param_error") =>
         pc = "success" /\ frame.bound = {kwlist[p] : p \in 1..maxargs}
    /\ ~WellFormedCall => pc = "error_return" /\ result.error = "TypeError"

\* the call grapheme_next_break(text=..., offset=...) ends at
\* missing_required
KeywordCallRejected ==
  /\ ParseOver
  /\ args.nargs = 0
  /\ args.kwnames = <<"text", "offset">>
  /\ result.label = "missing_required"
  /\ frame.optind = 0

\* the part on positional calls: with every parameter given by position and
\* no keyword the parse reaches success with every variable bound
PositionalCallParses ==
  (ParseOver /\ args.nargs = maxargs /\ args.kwnames = <<>>
     /\ result.label # "param_error") =>
    pc = "success" /\ frame.bound = {kwlist[p] : p \in 1..maxargs}

\* the part on failures: a call that is not well formed ends with a
\* TypeError, and success is reached only by well formed calls
IllFormedCallFails ==
  (ParseOver /\ ~WellFormedCall) =>
    pc = "error_return" /\ result.error = "TypeError"

====
